---- MODULE Spec2Model ----
(***************************************************************************)
(* Configuration loading, logging initialisation, log retention and the    *)
(* user module of the axum starter (crate `app`).                          *)
(*                                                                         *)
(*   SpecLoad         AppConfig::load                core/config/mod.rs    *)
(*   SpecTracing      init_tracing                   core/logging.rs       *)
(*   SpecCleanup      cleanup_old_logs               core/logging.rs       *)
(*   SpecCleanupTwo   two calls of cleanup_old_logs                        *)
(*   SpecInterval     the two interval parsers       core/config/logging.rs*)
(*   SpecIntervalWide the same, near u64::MAX                              *)
(*   SpecSection      ConfigSection, one section     core/config/*.rs      *)
(*   SpecLogin        UserService::login            modules/user/service.rs*)
(*   SpecRegister     UserService::register         modules/user/service.rs*)
(*   SpecAuth         require_auth                  core/middleware/auth.rs*)
(*                                                                         *)
(* core/config.rs is the loader the crate had before core/config/ was      *)
(* split into sections; the module tree (core/cors.rs, core/logging.rs,    *)
(* core/state/mod.rs) uses the types of core/config/mod.rs, which is the   *)
(* loader modelled here.                                                   *)
(***************************************************************************)
EXTENDS Integers, Sequences, FiniteSets, TLC

VARIABLES
    \* ---- AppConfig::load
    fileState,      \* the configuration file: "missing", "ok", "unparsable"
    fileLayer,      \* key -> value, what the file sets
    prefixedVars,   \* the process environment seen by the Environment
                    \* source: variable name -> value
    prefixedLayer,  \* key -> value, what the Environment source yields
    env,            \* the dedicated variables: name -> Option<String>
    loadResult,     \* what load returned
    calls,          \* the section methods load called, in order
    \* ---- init_tracing
    tcfg,           \* the LoggingConfig handed to init_tracing
    tfs,            \* what the file system lets init_tracing do
    tracing,        \* result and effects of init_tracing
    \* ---- cleanup_old_logs
    ccfg,           \* the LoggingConfig handed to cleanup_old_logs
    dirKind,        \* the log directory: "missing", "directory", "notdir"
    dir0,           \* the directory's entries when cleanup was called
    dir,            \* the directory's entries now
    cleanup,        \* position and locals of each cleanup_old_logs call
    activeFile,     \* the file the file sink is writing, if it is running
    readOrder,      \* the order read_dir gives the matching files
    \* ---- parse_interval
    ivalue,         \* the serde_json::Value handed to parse_interval
    iresult,        \* what parse_interval returned
    dresult,        \* what deserialize_cleanup_interval returned
    overflowChecks, \* whether the build checks integer overflow
    \* ---- ConfigSection, one section's methods
    sname,          \* the section the methods are called on
    sconfig,        \* the configuration that holds the section
    svalue,         \* the serde_json::Value handed to load_from_value
    slog,           \* the calls made on the section, in order
    \* ---- UserService: register, login
    users,          \* the rows of the user table
    nextId,         \* the next value of the auto-increment key
    dbUp,           \* whether the queries of this behaviour succeed
    now,            \* Utc::now().timestamp()
    reg,            \* position and locals of each register call
    lreq,           \* the LoginRequest
    lres,           \* what login returned
    \* ---- require_auth
    areq,           \* the request that reaches the middleware
    ares            \* what require_auth returned, and what it passed on

loadVars    == <<fileState, fileLayer, prefixedVars, prefixedLayer, env,
                 loadResult, calls>>
tracingVars == <<tcfg, tfs, tracing>>
cleanupVars == <<ccfg, dirKind, dir0, dir, cleanup, activeFile, readOrder>>
intervalVars == <<ivalue, iresult, dresult, overflowChecks>>
sectionVars == <<sname, sconfig, svalue, slog>>
userVars == <<users, nextId, dbUp, now, reg, lreq, lres>>
authVars == <<areq, ares>>
vars == <<fileState, fileLayer, prefixedVars, prefixedLayer, env, loadResult,
          calls,
          tcfg, tfs, tracing, ccfg, dirKind, dir0, dir, cleanup, activeFile,
          readOrder, ivalue, iresult, dresult, overflowChecks,
          sname, sconfig, svalue, slog,
          users, nextId, dbUp, now, reg, lreq, lres,
          areq, ares>>

(***************************************************************************)
(* Values                                                                  *)
(***************************************************************************)

\* Option<String>
None    == [some |-> FALSE, v |-> ""]
Some(x) == [some |-> TRUE, v |-> x]

\* A value of the merged configuration (config::Value), one shape for all
\* kinds so that values of different kinds can sit in one set.
IntV(n)  == [t |-> "int",  i |-> n, s |-> "",  b |-> FALSE]
StrV(x)  == [t |-> "str",  i |-> 0, s |-> x,   b |-> FALSE]
BoolV(x) == [t |-> "bool", i |-> 0, s |-> "",  b |-> x]

OK == "ok"

Min(a, b) == IF a <= b THEN a ELSE b

\* The subsets of S with at most k elements.
RECURSIVE KSubsets(_, _)
KSubsets(S, k) ==
    IF k = 0 THEN {{}}
    ELSE LET smaller == KSubsets(S, k - 1)
         IN  smaller \cup {s \cup {x} : s \in smaller, x \in S}

(***************************************************************************)
(* u64: eight bytes, the least significant first                           *)
(***************************************************************************)

LimbBase  == 256
LimbCount == 8

RECURSIVE Limbs(_, _)
Limbs(n, k) ==
    IF k = 0 THEN <<>> ELSE <<n % LimbBase>> \o Limbs(n \div LimbBase, k - 1)

\* The u64 of a number that is written out in the model.
U64(n) == Limbs(n, LimbCount)

Zeros(k) == [i \in 1..k |-> 0]

\* x * k + carry for a byte k: one limb more than x has.
RECURSIVE MulAddLimbs(_, _, _)
MulAddLimbs(x, k, carry) ==
    IF x = <<>> THEN <<carry>>
    ELSE LET v == Head(x) * k + carry
         IN  <<v % LimbBase>> \o MulAddLimbs(Tail(x), k, v \div LimbBase)

\* a + b + carry for a and b of one length, the last carry dropped.
RECURSIVE AddLimbs(_, _, _)
AddLimbs(a, b, carry) ==
    IF a = <<>> THEN <<>>
    ELSE LET v == Head(a) + Head(b) + carry
         IN  <<v % LimbBase>> \o AddLimbs(Tail(a), Tail(b), v \div LimbBase)

\* The full product of x and y, Len(x) + Len(y) limbs.
RECURSIVE MulWide(_, _)
MulWide(x, y) ==
    IF y = <<>> THEN Zeros(Len(x))
    ELSE LET low  == MulAddLimbs(x, Head(y), 0)
             rest == MulWide(x, Tail(y))
         IN  <<Head(low)>>
                \o AddLimbs(Tail(low) \o Zeros(Len(rest) - Len(x)), rest, 0)

\* The product does not fit in a u64.
Overflows(wide) == \E i \in (LimbCount + 1)..Len(wide) : wide[i] # 0

(***************************************************************************)
(* Defaults of the sections                                                *)
(***************************************************************************)

DefaultPort           == 3001
DefaultTimeout        == 30
DefaultMaxConnections == 10
DefaultPoolTimeout    == 30
DefaultMaxFiles       == 30
DefaultCleanupInterval == 168
MinJwtSecretLen       == 32

ServerDefault ==
    [host |-> "127.0.0.1", port |-> DefaultPort, timeout |-> DefaultTimeout]

DatabaseDefault ==
    [url |-> "", max_connections |-> DefaultMaxConnections,
     pool_timeout |-> DefaultPoolTimeout]

LoggingDefault ==
    [level |-> "info", console_format |-> "pretty", console |-> TRUE,
     file |-> FALSE, file_dir |-> "./logs", file_prefix |-> "app",
     rotation |-> "daily", max_files |-> DefaultMaxFiles,
     cleanup_enabled |-> TRUE,
     cleanup_interval |-> U64(DefaultCleanupInterval)]

SecretsDefault == [jwt_secret |-> "", redis_url |-> None]

\* core/config/cors.rs is not among the sources: the section is kept abstract,
\* one field saying whether its validate() accepts it.
CorsDefault == [valid |-> TRUE]

RedisDefault == [url |-> None]

AppConfigDefault ==
    [server |-> ServerDefault, database |-> DatabaseDefault,
     logging |-> LoggingDefault, secrets |-> SecretsDefault,
     cors |-> CorsDefault, redis |-> RedisDefault]

\* The order of the `sections` vectors of apply_env_overrides and validate.
Sections == <<"server", "database", "logging", "secrets", "cors", "redis">>

(***************************************************************************)
(* Layers: Config::builder().add_source(File).add_source(Environment)      *)
(***************************************************************************)

\* The kind of value each key deserializes into.
FieldType(key) ==
    CASE key \in {"server.port", "server.timeout", "database.max_connections",
                  "database.pool_timeout", "logging.max_files"} -> "int"
      [] key \in {"logging.console", "logging.file", "logging.cleanup_enabled",
                  "cors.valid"} -> "bool"
      [] OTHER -> "str"

\* Later sources override earlier ones key by key; a missing or unparsable
\* file contributes nothing.
Merge(f, p) ==
    [k \in (DOMAIN f) \cup (DOMAIN p) |-> IF k \in DOMAIN p THEN p[k] ELSE f[k]]

EmptyLayer == [k \in {} |-> StrV("")]

(***************************************************************************)
(* Environment::with_prefix("APP_").try_parsing(true).separator("_")       *)
(*                                                                         *)
(* A variable name is the sequence of the pieces between its underscores:  *)
(* APP_SERVER_PORT is <<"APP", "SERVER", "PORT">> and APP__SERVER_PORT is  *)
(* <<"APP", "", "SERVER", "PORT">>.                                        *)
(***************************************************************************)

\* str::to_lowercase on the pieces in use.
Lower(piece) ==
    CASE piece = "APP"         -> "app"
      [] piece = "SERVER"      -> "server"
      [] piece = "PORT"        -> "port"
      [] piece = "DATABASE"    -> "database"
      [] piece = "URL"         -> "url"
      [] piece = "MAX"         -> "max"
      [] piece = "CONNECTIONS" -> "connections"
      [] piece = "LOGGING"     -> "logging"
      [] piece = "LEVEL"       -> "level"
      [] piece = "REDIS"       -> "redis"
      [] OTHER                 -> piece

LowerName(name) == [i \in 1..Len(name) |-> Lower(name[i])]

\* The prefix pattern: the prefix, then the prefix separator, which is the
\* separator when none is given: "app_" and "_", that is "app__".
PrefixPattern == <<"app", "", "">>

\* key.starts_with(prefix_pattern): the pattern's last piece is the beginning
\* of whatever piece follows.
HasPrefix(name) ==
    /\ Len(name) >= Len(PrefixPattern)
    /\ \A i \in 1..(Len(PrefixPattern) - 1) : name[i] = PrefixPattern[i]

RECURSIVE JoinDots(_)
JoinDots(path) ==
    IF Len(path) = 0 THEN ""
    ELSE IF Len(path) = 1 THEN path[1]
    ELSE path[1] \o "." \o JoinDots(Tail(path))

\* The key of a variable that has the prefix: the name in lower case, the
\* pattern cut off, every separator replaced by ".".
EnvironmentKey(name) ==
    JoinDots(SubSeq(LowerName(name), Len(PrefixPattern), Len(name)))

\* try_parsing(true): a value that reads as a bool or an integer becomes one.
TryParsing(value) ==
    CASE value = "true"  -> BoolV(TRUE)
      [] value = "false" -> BoolV(FALSE)
      [] value = "0"     -> IntV(0)
      [] value = "5"     -> IntV(5)
      [] value = "8080"  -> IntV(8080)
      [] OTHER           -> StrV(value)

\* Environment::collect: the variables without the prefix are skipped.
EnvironmentLayer(evars) ==
    LET taken == {n \in DOMAIN evars : HasPrefix(LowerName(n))}
        keys  == {EnvironmentKey(n) : n \in taken}
    IN  [k \in keys |->
            TryParsing(evars[CHOOSE n \in taken : EnvironmentKey(n) = k])]

NoPrefixedVars == [n \in {} |-> ""]

Merged == Merge(IF fileState = "ok" THEN fileLayer ELSE EmptyLayer, prefixedLayer)

\* builder.build(): a file that is absent is skipped (required(false)), one
\* that is present and cannot be parsed fails the build.
BuildFails == fileState = "unparsable"

\* The fields of the sections; a key that names none of them is an unknown
\* field, which serde skips.
Fields ==
    {"server.host", "server.port", "server.timeout", "database.url",
     "database.max_connections", "database.pool_timeout", "logging.level",
     "logging.console_format", "logging.console", "logging.file",
     "logging.file_dir", "logging.file_prefix", "logging.rotation",
     "logging.max_files", "logging.cleanup_enabled", "secrets.jwt_secret",
     "secrets.redis_url", "redis.url", "cors.valid"}

\* try_deserialize taken never to fail.
DeserializeNeverFails(m) == FALSE

\* try_deserialize: fails when a field's key holds a value of the wrong kind.
DeserializeFails(m) == \E k \in DOMAIN m \cap Fields : m[k].t # FieldType(k)

GetI(m, k, d) == IF k \in DOMAIN m THEN m[k].i ELSE d
GetS(m, k, d) == IF k \in DOMAIN m THEN m[k].s ELSE d
GetB(m, k, d) == IF k \in DOMAIN m THEN m[k].b ELSE d
GetO(m, k)    == IF k \in DOMAIN m THEN Some(m[k].s) ELSE None

\* #[serde(default)] on every struct: a key the merged value lacks keeps the
\* default of its field.
Deserialize(m) ==
    [server |->
        [host    |-> GetS(m, "server.host", ServerDefault.host),
         port    |-> GetI(m, "server.port", ServerDefault.port),
         timeout |-> GetI(m, "server.timeout", ServerDefault.timeout)],
     database |->
        [url             |-> GetS(m, "database.url", DatabaseDefault.url),
         max_connections |-> GetI(m, "database.max_connections",
                                  DatabaseDefault.max_connections),
         pool_timeout    |-> GetI(m, "database.pool_timeout",
                                  DatabaseDefault.pool_timeout)],
     logging |->
        [level           |-> GetS(m, "logging.level", LoggingDefault.level),
         console_format  |-> GetS(m, "logging.console_format",
                                  LoggingDefault.console_format),
         console         |-> GetB(m, "logging.console", LoggingDefault.console),
         file            |-> GetB(m, "logging.file", LoggingDefault.file),
         file_dir        |-> GetS(m, "logging.file_dir", LoggingDefault.file_dir),
         file_prefix     |-> GetS(m, "logging.file_prefix",
                                  LoggingDefault.file_prefix),
         rotation        |-> GetS(m, "logging.rotation", LoggingDefault.rotation),
         max_files       |-> GetI(m, "logging.max_files", LoggingDefault.max_files),
         cleanup_enabled |-> GetB(m, "logging.cleanup_enabled",
                                  LoggingDefault.cleanup_enabled),
         cleanup_interval |-> LoggingDefault.cleanup_interval],
     secrets |->
        [jwt_secret |-> GetS(m, "secrets.jwt_secret", SecretsDefault.jwt_secret),
         redis_url  |-> GetO(m, "secrets.redis_url")],
     cors  |-> [valid |-> GetB(m, "cors.valid", CorsDefault.valid)],
     redis |-> [url |-> GetO(m, "redis.url")]]

(***************************************************************************)
(* ConfigSection::apply_env_overrides, per section                         *)
(***************************************************************************)

\* std::env::var(name): Ok(value) for a variable that is present, whatever
\* its value, the empty string included.
EnvVar(e, name) == e[name]

\* DATABASE_URL used only to fill a URL the lower layers left empty.
DatabaseFillIfEmpty(s, e) ==
    IF EnvVar(e, "DATABASE_URL").some /\ s.url = ""
    THEN [s EXCEPT !.url = EnvVar(e, "DATABASE_URL").v]
    ELSE s

DatabaseApplyEnvOverrides(s, e) ==
    IF EnvVar(e, "DATABASE_URL").some
    THEN [s EXCEPT !.url = EnvVar(e, "DATABASE_URL").v]
    ELSE s

\* The secret of the environment appended to the field instead of replacing
\* it.
SecretsAppendEnv(s, e) ==
    LET s1 == IF EnvVar(e, "JWT_SECRET").some
              THEN [s EXCEPT !.jwt_secret = s.jwt_secret \o EnvVar(e, "JWT_SECRET").v]
              ELSE s
    IN  IF EnvVar(e, "REDIS_URL").some
        THEN [s1 EXCEPT !.redis_url = Some(EnvVar(e, "REDIS_URL").v)]
        ELSE s1

SecretsApplyEnvOverrides(s, e) ==
    LET s1 == IF EnvVar(e, "JWT_SECRET").some
              THEN [s EXCEPT !.jwt_secret = EnvVar(e, "JWT_SECRET").v]
              ELSE s
    IN  IF EnvVar(e, "REDIS_URL").some
        THEN [s1 EXCEPT !.redis_url = Some(EnvVar(e, "REDIS_URL").v)]
        ELSE s1

RedisApplyEnvOverrides(s, e) ==
    IF EnvVar(e, "REDIS_URL").some
    THEN [s EXCEPT !.url = Some(EnvVar(e, "REDIS_URL").v)]
    ELSE s

\* LoggingConfig's override is empty; ServerConfig keeps the trait's default.
LoggingApplyEnvOverrides(s, e) == s

ServerApplyEnvOverrides(s, e) == s

CorsApplyEnvOverrides(s, e) == s

SectionApplyEnvOverrides(name, cfg, e) ==
    CASE name = "server" ->
            [cfg EXCEPT !.server = ServerApplyEnvOverrides(cfg.server, e)]
      [] name = "database" ->
            [cfg EXCEPT !.database = DatabaseApplyEnvOverrides(cfg.database, e)]
      [] name = "logging" ->
            [cfg EXCEPT !.logging = LoggingApplyEnvOverrides(cfg.logging, e)]
      [] name = "secrets" ->
            [cfg EXCEPT !.secrets = SecretsApplyEnvOverrides(cfg.secrets, e)]
      [] name = "cors" ->
            [cfg EXCEPT !.cors = CorsApplyEnvOverrides(cfg.cors, e)]
      [] name = "redis" ->
            [cfg EXCEPT !.redis = RedisApplyEnvOverrides(cfg.redis, e)]

(***************************************************************************)
(* ConfigSection::validate, per section: OK or the message                 *)
(***************************************************************************)

ServerValidate(s) ==
    IF s.port = 0 THEN "server port must not be 0"
    ELSE IF s.timeout = 0 THEN "server timeout must be greater than 0"
    ELSE OK

DatabaseValidate(s) ==
    IF s.url = "" THEN "database URL is required but not provided"
    ELSE IF s.max_connections = 0 THEN "max connections must be greater than 0"
    ELSE OK

Levels         == {"trace", "debug", "info", "warn", "error"}
ConsoleFormats == {"pretty", "compact"}
Rotations      == {"daily", "hourly", "never"}

\* validate without the match on rotation.
LoggingValidateNoRotation(s) ==
    IF s.level \notin Levels THEN "invalid log level"
    ELSE IF s.console_format \notin ConsoleFormats THEN "invalid console format"
    ELSE OK

LoggingValidate(s) ==
    IF s.level \notin Levels THEN "invalid log level"
    ELSE IF s.console_format \notin ConsoleFormats THEN "invalid console format"
    ELSE IF s.rotation \notin Rotations THEN "invalid rotation"
    ELSE OK

\* validate without the test of the length.
SecretsValidateNonEmpty(s) ==
    IF s.jwt_secret = "" THEN "JWT secret is required but not provided" ELSE OK

SecretsValidate(s) ==
    IF s.jwt_secret = "" THEN "JWT secret is required but not provided"
    ELSE IF Len(s.jwt_secret) < MinJwtSecretLen
         THEN "JWT secret must be at least 32 characters"
    ELSE OK

CorsValidate(s) == IF s.valid THEN OK ELSE "invalid cors section"

RedisValidate(s) == OK

SectionValidate(name, cfg) ==
    CASE name = "server"   -> ServerValidate(cfg.server)
      [] name = "database" -> DatabaseValidate(cfg.database)
      [] name = "logging"  -> LoggingValidate(cfg.logging)
      [] name = "secrets"  -> SecretsValidate(cfg.secrets)
      [] name = "cors"     -> CorsValidate(cfg.cors)
      [] name = "redis"    -> RedisValidate(cfg.redis)

(***************************************************************************)
(* AppConfig::apply_env_overrides, AppConfig::validate, AppConfig::load    *)
(***************************************************************************)

\* EnvConfigError
NoError == [kind |-> "", section |-> "", msg |-> "", var_name |-> ""]
InvalidConfig(section, msg) ==
    [kind |-> "InvalidConfig", section |-> section, msg |-> msg, var_name |-> ""]
MissingVar(name) ==
    [kind |-> "MissingVar", section |-> "", msg |-> "", var_name |-> name]

\* The loop of AppConfig::apply_env_overrides from section i on: the
\* configuration it leaves and the calls it made.  No section's override
\* returns Err, so the loop always reaches the end.
RECURSIVE OverrideFrom(_, _, _, _)
OverrideFrom(order, i, cfg, e) ==
    IF i > Len(order) THEN [config |-> cfg, calls |-> <<>>]
    ELSE LET rest == OverrideFrom(order, i + 1,
                                  SectionApplyEnvOverrides(order[i], cfg, e), e)
         IN  [config |-> rest.config,
              calls  |-> <<<<"apply_env_overrides", order[i]>>>> \o rest.calls]

AppApplyEnvOverrides(cfg, e) == OverrideFrom(Sections, 1, cfg, e)

\* The loop of AppConfig::validate from section i on: `?` returns at the
\* first section whose validate is Err, with the section's name and message.
RECURSIVE ValidateFrom(_, _, _)
ValidateFrom(order, i, cfg) ==
    IF i > Len(order) THEN [err |-> NoError, calls |-> <<>>]
    ELSE LET r == SectionValidate(order[i], cfg)
             call == <<<<"validate", order[i]>>>>
         IN  IF r # OK
             THEN [err |-> InvalidConfig(order[i], r), calls |-> call]
             ELSE LET rest == ValidateFrom(order, i + 1, cfg)
                  IN  [err |-> rest.err, calls |-> call \o rest.calls]

\* The sections validated last to first.
AppValidateReversed(cfg) ==
    ValidateFrom(<<"redis", "cors", "secrets", "logging", "database", "server">>,
                 1, cfg)

AppValidate(cfg) == ValidateFrom(Sections, 1, cfg)

NoConfig == [none |-> TRUE]

LoadOk(cfg)  == [status |-> "ok",  config |-> cfg,      err |-> NoError]
LoadErr(err) == [status |-> "err", config |-> NoConfig, err |-> err]

\* AppConfig::load: what it returns and the section calls it makes.
LoadOutcome(fs, m, e) ==
    IF fs = "unparsable"
    THEN [result |-> LoadErr(InvalidConfig("", "config build failed")),
          calls  |-> <<>>]
    ELSE IF DeserializeFails(m)
    THEN [result |-> LoadErr(InvalidConfig("", "config deserialization failed")),
          calls  |-> <<>>]
    ELSE LET o == AppApplyEnvOverrides(Deserialize(m), e)
             v == AppValidate(o.config)
         IN  [result |-> IF v.err # NoError THEN LoadErr(v.err)
                         ELSE LoadOk(o.config),
              calls  |-> o.calls \o v.calls]

Load ==
    /\ loadResult.status = "notcalled"
    /\ LET out == LoadOutcome(fileState, Merged, env)
       IN  /\ loadResult' = out.result
           /\ calls' = out.calls
    /\ UNCHANGED <<fileState, fileLayer, prefixedVars, prefixedLayer, env>>
    /\ UNCHANGED <<tracingVars, cleanupVars, intervalVars, sectionVars,
                   userVars, authVars>>

(***************************************************************************)
(* Inputs of load                                                          *)
(***************************************************************************)

\* How many keys the file and the prefixed environment set, together.
MaxLayerKeys == 2

LongSecret == "0123456789abcdef0123456789abcdef"

\* What a layer may set: <<key, value>>.
Settings(layer) ==
    { <<"server.port", IntV(0)>>, <<"server.port", StrV("abc")>>,
      <<"server.timeout", IntV(0)>>,
      <<"database.url", StrV("postgres://" \o layer)>>,
      <<"database.max_connections", IntV(0)>>,
      <<"logging.level", StrV("debug")>>, <<"logging.level", StrV("verbose")>>,
      <<"logging.console_format", StrV("fancy")>>,
      <<"logging.console", BoolV(FALSE)>>,
      <<"logging.file", BoolV(TRUE)>>,
      <<"logging.rotation", StrV("hourly")>>,
      <<"logging.rotation", StrV("weekly")>>,
      <<"secrets.jwt_secret", StrV(LongSecret \o layer)>>,
      <<"secrets.jwt_secret", StrV("short")>>,
      <<"redis.url", StrV("redis://" \o layer)>>,
      <<"cors.valid", BoolV(FALSE)>> }

\* The variables the environment may hold for the Environment source:
\* <<name, value>>.
PrefixedPool ==
    { <<<<"APP", "SERVER", "PORT">>, "8080">>,
      <<<<"APP", "", "SERVER", "PORT">>, "8080">>,
      <<<<"APP", "", "SERVER", "PORT">>, "0">>,
      <<<<"APP", "", "SERVER", "PORT">>, "abc">>,
      <<<<"APP", "DATABASE", "MAX", "CONNECTIONS">>, "5">>,
      <<<<"APP", "", "DATABASE", "MAX", "CONNECTIONS">>, "5">>,
      <<<<"APP", "DATABASE", "URL">>, "postgres://single">>,
      <<<<"APP", "", "DATABASE", "URL">>, "postgres://prefixed">>,
      <<<<"APP", "", "LOGGING", "LEVEL">>, "debug">>,
      <<<<"APP", "", "REDIS", "URL">>, "redis://prefixed">>,
      <<<<"SERVER", "PORT">>, "8080">> }

Tagged == {<<"file", s>> : s \in Settings("file")}
          \cup {<<"prefixed", s>> : s \in PrefixedPool}

Keys(ps) == {p[1] : p \in ps}

Functional(ps) == \A p, q \in ps : p[1] = q[1] => p = q

LayerOf(ps) == [k \in Keys(ps) |-> (CHOOSE p \in ps : p[1] = k)[2]]

Picked(ts, layer) == {t[2] : t \in {u \in ts : u[1] = layer}}

EnvVars == {"DATABASE_URL", "JWT_SECRET", "REDIS_URL",
            "LOG_FILE_DIR", "LOG_ROTATION", "LOG_CONSOLE"}

LogVars == {"LOG_FILE_DIR", "LOG_ROTATION", "LOG_CONSOLE"}

EnvValues(name) ==
    CASE name = "DATABASE_URL" -> {None, Some(""), Some("postgres://dedicated")}
      [] name = "JWT_SECRET"   -> {None, Some(""), Some(LongSecret \o "dedicated")}
      [] name = "REDIS_URL"    -> {None, Some(""), Some("redis://dedicated")}
      [] name = "LOG_FILE_DIR" -> {None, Some("/var/log/app")}
      [] name = "LOG_ROTATION" -> {None, Some("hourly")}
      [] name = "LOG_CONSOLE"  -> {None, Some("false"), Some("maybe")}

\* Every setting of the three secret variables with no logging variable, and
\* every setting of the logging variables with the secrets in place.
MkEnv(d, j, r, fd, ro, co) ==
    [n \in EnvVars |->
        CASE n = "DATABASE_URL" -> d
          [] n = "JWT_SECRET"   -> j
          [] n = "REDIS_URL"    -> r
          [] n = "LOG_FILE_DIR" -> fd
          [] n = "LOG_ROTATION" -> ro
          [] n = "LOG_CONSOLE"  -> co]

Environments ==
    {MkEnv(d, j, r, None, None, None) :
        d \in EnvValues("DATABASE_URL"), j \in EnvValues("JWT_SECRET"),
        r \in EnvValues("REDIS_URL")}
    \cup
    {MkEnv(Some("postgres://dedicated"), Some(LongSecret \o "dedicated"), None,
           fd, ro, co) :
        fd \in EnvValues("LOG_FILE_DIR"), ro \in EnvValues("LOG_ROTATION"),
        co \in EnvValues("LOG_CONSOLE")}

NotCalled == [status |-> "notcalled", config |-> NoConfig, err |-> NoError]

(***************************************************************************)
(* init_tracing                                                            *)
(***************************************************************************)

\* AppError, as far as init_tracing produces it.  `value` is the offending
\* value a message quotes, `lists` the values a message enumerates.
NoTErr == [kind |-> "", msg |-> "", value |-> "", lists |-> <<>>]
ValidationErr(msg, value, lists) ==
    [kind |-> "Validation", msg |-> msg, value |-> value, lists |-> lists]
IoErr(msg) == [kind |-> "Io", msg |-> msg, value |-> "", lists |-> <<>>]

\* An unknown rotation taken as the default instead of refused.
CreateFileAppenderLenient(c, fs) ==
    IF ~fs.build_ok
    THEN [err |-> IoErr("appender build failed"), effects |-> <<>>]
    ELSE [err |-> NoTErr,
          effects |-> <<"build_file_appender", "start_file_worker">>]

\* create_file_appender: the rotation is matched first, then the appender is
\* built, then non_blocking() starts the worker that writes to it.
CreateFileAppender(c, fs) ==
    IF c.rotation \notin {"daily", "hourly", "never"}
    THEN [err |-> ValidationErr("unsupported rotation", c.rotation,
                                <<"daily", "hourly", "never">>),
          effects |-> <<>>]
    ELSE IF ~fs.build_ok
    THEN [err |-> IoErr("appender build failed"), effects |-> <<>>]
    ELSE [err |-> NoTErr,
          effects |-> <<"build_file_appender", "start_file_worker">>]

\* The console layer of the subscriber: "pretty", anything else is compact.
ConsoleLayer(c) ==
    IF c.console_format = "pretty" THEN "console_pretty" ELSE "console_compact"

TracingOk(effects, layers) ==
    [status |-> "ok", err |-> NoTErr, effects |-> effects, layers |-> layers]
TracingErr(err, effects) ==
    [status |-> "err", err |-> err, effects |-> effects, layers |-> <<>>]

\* The directory created whether or not file output is on.
CreateLogDirAlways(c, fs) ==
    IF ~fs.mkdir_ok
    THEN [err |-> IoErr("create_dir_all failed"), effects |-> <<>>]
    ELSE [err |-> NoTErr, effects |-> <<"create_dir_all">>]

\* `if config.file { fs::create_dir_all(&config.file_dir)? }`
CreateLogDir(c, fs) ==
    IF ~c.file THEN [err |-> NoTErr, effects |-> <<>>]
    ELSE IF ~fs.mkdir_ok
    THEN [err |-> IoErr("create_dir_all failed"), effects |-> <<>>]
    ELSE [err |-> NoTErr, effects |-> <<"create_dir_all">>]

\* The guard of the file worker left to go out of scope when both sinks
\* are on.
InitTracingScopedFileGuard(c, fs) ==
    LET mk  == CreateLogDir(c, fs)
        app == CreateFileAppender(c, fs)
    IN  IF mk.err # NoTErr THEN TracingErr(mk.err, mk.effects)
        ELSE IF c.console /\ c.file
        THEN IF app.err # NoTErr THEN TracingErr(app.err, mk.effects \o app.effects)
             ELSE TracingOk(mk.effects \o app.effects
                               \o <<"start_console_worker", "install_subscriber",
                                    "forget_console_guard">>,
                            <<ConsoleLayer(c), "file_json">>)
        ELSE IF c.console
        THEN TracingOk(mk.effects
                          \o <<"start_console_worker", "install_subscriber",
                               "forget_console_guard">>,
                       <<ConsoleLayer(c)>>)
        ELSE IF c.file
        THEN IF app.err # NoTErr THEN TracingErr(app.err, mk.effects \o app.effects)
             ELSE TracingOk(mk.effects \o app.effects
                               \o <<"install_subscriber", "forget_file_guard">>,
                            <<"file_json">>)
        ELSE TracingErr(ValidationErr("at least one of console and file is needed",
                                      "", <<>>),
                        mk.effects)

\* The console writer made before the file appender when both sinks are on.
InitTracingConsoleFirst(c, fs) ==
    LET mk  == CreateLogDir(c, fs)
        app == CreateFileAppender(c, fs)
    IN  IF mk.err # NoTErr THEN TracingErr(mk.err, mk.effects)
        ELSE IF c.console /\ c.file
        THEN IF app.err # NoTErr
             THEN TracingErr(app.err, mk.effects \o <<"start_console_worker">>
                                         \o app.effects)
             ELSE TracingOk(mk.effects \o <<"start_console_worker">>
                               \o app.effects
                               \o <<"install_subscriber",
                                    "forget_file_guard", "forget_console_guard">>,
                            <<ConsoleLayer(c), "file_json">>)
        ELSE IF c.console
        THEN TracingOk(mk.effects
                          \o <<"start_console_worker", "install_subscriber",
                               "forget_console_guard">>,
                       <<ConsoleLayer(c)>>)
        ELSE IF c.file
        THEN IF app.err # NoTErr THEN TracingErr(app.err, mk.effects \o app.effects)
             ELSE TracingOk(mk.effects \o app.effects
                               \o <<"install_subscriber", "forget_file_guard">>,
                            <<"file_json">>)
        ELSE TracingErr(ValidationErr("at least one of console and file is needed",
                                      "", <<>>),
                        mk.effects)

\* init_tracing: the result, the effects in the order they happen, and the
\* layers of the subscriber it installed.
InitTracingOutcome(c, fs) ==
    LET mk  == CreateLogDir(c, fs)
        app == CreateFileAppender(c, fs)
    IN  IF mk.err # NoTErr THEN TracingErr(mk.err, mk.effects)
        ELSE IF c.console /\ c.file
        THEN IF app.err # NoTErr THEN TracingErr(app.err, mk.effects \o app.effects)
             ELSE TracingOk(mk.effects \o app.effects
                               \o <<"start_console_worker", "install_subscriber",
                                    "forget_file_guard", "forget_console_guard">>,
                            <<ConsoleLayer(c), "file_json">>)
        ELSE IF c.console
        THEN TracingOk(mk.effects
                          \o <<"start_console_worker", "install_subscriber",
                               "forget_console_guard">>,
                       <<ConsoleLayer(c)>>)
        ELSE IF c.file
        THEN IF app.err # NoTErr THEN TracingErr(app.err, mk.effects \o app.effects)
             ELSE TracingOk(mk.effects \o app.effects
                               \o <<"install_subscriber", "forget_file_guard">>,
                            <<"file_json">>)
        ELSE TracingErr(ValidationErr("at least one of console and file is needed",
                                      "", <<>>),
                        mk.effects)

TracingNotCalled ==
    [status |-> "notcalled", err |-> NoTErr, effects |-> <<>>, layers |-> <<>>,
     validated |-> ""]

\* init_tracing(&config), once per process.
InitTracing ==
    /\ tracing.status = "notcalled"
    /\ LET out == InitTracingOutcome(tcfg, tfs)
       IN  tracing' = [status |-> out.status, err |-> out.err,
                       effects |-> out.effects, layers |-> out.layers,
                       validated |-> tracing.validated]
    /\ UNCHANGED <<tcfg, tfs>>
    /\ UNCHANGED <<loadVars, cleanupVars, intervalVars, sectionVars,
                   userVars, authVars>>

\* config.validate() of the logging section, on the same configuration.
ValidateLogging ==
    /\ tracing.validated = ""
    /\ tracing' = [tracing EXCEPT !.validated = LoggingValidate(tcfg)]
    /\ UNCHANGED <<tcfg, tfs>>
    /\ UNCHANGED <<loadVars, cleanupVars, intervalVars, sectionVars,
                   userVars, authVars>>

Effect(e) == \E i \in 1..Len(tracing.effects) : tracing.effects[i] = e

\* How many times init_tracing did e.
EffectCount(e) ==
    Cardinality({i \in 1..Len(tracing.effects) : tracing.effects[i] = e})

\* The workers whose WorkerGuard init_tracing still owned when it returned:
\* a guard that was not handed to std::mem::forget is dropped with the
\* function's locals, and dropping it shuts its worker down.
TornDown ==
    {w \in {"file", "console"} :
        /\ Effect("start_" \o w \o "_worker")
        /\ ~Effect("forget_" \o w \o "_guard")}

TracingConfigs ==
    { [LoggingDefault EXCEPT !.console = c, !.file = f, !.console_format = cf,
                             !.rotation = r, !.level = l] :
        c \in BOOLEAN, f \in BOOLEAN, cf \in {"pretty", "compact", "fancy"},
        r \in {"daily", "hourly", "never", "weekly", ""},
        l \in {"info", "debug", "verbose"} }

(***************************************************************************)
(* LoggingConfig::parse_interval                                           *)
(*                                                                         *)
(* A string is a sequence of one-character strings.                        *)
(***************************************************************************)

Digits == {"0", "1", "2", "3", "4", "5", "6", "7", "8", "9"}

DigitVal(c) ==
    CASE c = "0" -> 0 [] c = "1" -> 1 [] c = "2" -> 2 [] c = "3" -> 3
      [] c = "4" -> 4 [] c = "5" -> 5 [] c = "6" -> 6 [] c = "7" -> 7
      [] c = "8" -> 8 [] c = "9" -> 9

IsWhitespace(c) == c \in {" ", "\t"}

\* str::trim
RECURSIVE TrimStart(_)
TrimStart(s) ==
    IF s # <<>> /\ IsWhitespace(Head(s)) THEN TrimStart(Tail(s)) ELSE s

RECURSIVE TrimEnd(_)
TrimEnd(s) ==
    IF s # <<>> /\ IsWhitespace(s[Len(s)])
    THEN TrimEnd(SubSeq(s, 1, Len(s) - 1)) ELSE s

Trim(s) == TrimEnd(TrimStart(s))

\* str::to_lowercase, on the letters of the alphabet in use
LowerChar(c) ==
    CASE c = "X" -> "x" [] c = "D" -> "d" [] c = "H" -> "h" [] c = "A" -> "a"
      [] OTHER -> c

ToLowercase(s) == [i \in 1..Len(s) |-> LowerChar(s[i])]

\* str::find(char): the index of the first occurrence, 0 for None
Find(s, c) ==
    IF \E i \in 1..Len(s) : s[i] = c
    THEN CHOOSE i \in 1..Len(s) : s[i] = c /\ \A j \in 1..(i - 1) : s[j] # c
    ELSE 0

EndsWith(s, c) == s # <<>> /\ s[Len(s)] = c

RECURSIVE DigitsValue(_)
DigitsValue(s) ==
    IF s = <<>> THEN 0
    ELSE 10 * DigitsValue(SubSeq(s, 1, Len(s) - 1)) + DigitVal(s[Len(s)])

\* The digits read into a u64, most significant first: each step is
\* checked, and a number beyond u64::MAX is an error.
RECURSIVE DigitsU64(_)
DigitsU64(s) ==
    IF s = <<>> THEN [ok |-> TRUE, n |-> U64(0)]
    ELSE LET front == DigitsU64(SubSeq(s, 1, Len(s) - 1))
             next  == MulAddLimbs(front.n, 10, DigitVal(s[Len(s)]))
         IN  IF ~front.ok \/ next[LimbCount + 1] # 0
             THEN [ok |-> FALSE, n |-> U64(0)]
             ELSE [ok |-> TRUE, n |-> SubSeq(next, 1, LimbCount)]

\* str::parse::<u64>: one optional '+', then one or more decimal digits that
\* make a number of at most u64::MAX.
ParseU64(s) ==
    LET body == IF s # <<>> /\ Head(s) = "+" THEN Tail(s) ELSE s
    IN  IF body # <<>> /\ \A i \in 1..Len(body) : body[i] \in Digits
        THEN DigitsU64(body)
        ELSE [ok |-> FALSE, n |-> U64(0)]

\* serde_json::Value, as far as parse_interval tells values apart: as_u64()
\* is Some for a non-negative integer, as_str() for a string.
NumV(n)    == [kind |-> "u64", n |-> n, s |-> <<>>]
TextV(s)   == [kind |-> "string", n |-> 0, s |-> s]
OtherV(k)  == [kind |-> k, n |-> 0, s |-> <<>>]

Hours(n)     == [ok |-> TRUE,  hours |-> n, err |-> ""]
Invalid(msg) == [ok |-> FALSE, hours |-> U64(0), err |-> msg]

\* The thread panicked inside the parser: neither Ok nor Err is returned.
Panic ==
    [ok |-> FALSE, hours |-> U64(0), err |-> "panic: attempt to multiply with overflow"]

\* `a * b` on u64: a product that does not fit panics in a build with
\* overflow checks (the dev profile) and wraps in one without (the release
\* profile).
MulU64(a, b) ==
    LET wide == MulWide(a, b)
    IN  IF Overflows(wide) /\ overflowChecks THEN Panic
        ELSE Hours(SubSeq(wide, 1, LimbCount))

HoursPerDay == 24

\* The "AxB" arm: both sides of the first 'x', each trimmed and parsed.
ParseProduct(s, x_pos) ==
    LET left  == ParseU64(Trim(SubSeq(s, 1, x_pos - 1)))
        right == ParseU64(Trim(SubSeq(s, x_pos + 1, Len(s))))
    IN  IF ~left.ok THEN Invalid("invalid format")
        ELSE IF ~right.ok THEN Invalid("invalid format")
        ELSE MulU64(left.n, right.n)

\* The days read as hours: the factor forgotten.
ParseDaysAsHours(s) ==
    LET num == ParseU64(Trim(SubSeq(s, 1, Len(s) - 1)))
    IN  IF ~num.ok THEN Invalid("invalid format") ELSE Hours(num.n)

\* The "Nd" arm.
ParseDays(s) ==
    LET num == ParseU64(Trim(SubSeq(s, 1, Len(s) - 1)))
    IN  IF ~num.ok THEN Invalid("invalid format")
        ELSE MulU64(num.n, U64(HoursPerDay))

\* The "Nh" arm.
ParseHours(s) ==
    LET num == ParseU64(Trim(SubSeq(s, 1, Len(s) - 1)))
    IN  IF ~num.ok THEN Invalid("invalid format") ELSE Hours(num.n)

\* The string arm of parse_interval, on the trimmed and lower-cased string.
ParseIntervalStr(s) ==
    IF Find(s, "x") # 0 THEN ParseProduct(s, Find(s, "x"))
    ELSE IF EndsWith(s, "d") THEN ParseDays(s)
    ELSE IF EndsWith(s, "h") THEN ParseHours(s)
    ELSE LET num == ParseU64(s)
         IN  IF num.ok THEN Hours(num.n)
             ELSE Invalid("invalid format, supported: 168, 7x24, 7d, 168h")

parse_interval(value) ==
    IF value.kind = "u64" THEN Hours(U64(value.n))
    ELSE IF value.kind = "string" THEN ParseIntervalStr(ToLowercase(Trim(value.s)))
    ELSE Invalid("must be a number or a string")

IntervalNotCalled == [ok |-> FALSE, hours |-> U64(0), err |-> "notcalled"]

ParseInterval ==
    /\ iresult = IntervalNotCalled
    /\ iresult' = parse_interval(ivalue)
    /\ UNCHANGED <<ivalue, dresult, overflowChecks>>
    /\ UNCHANGED <<loadVars, tracingVars, cleanupVars, sectionVars,
                   userVars, authVars>>

(***************************************************************************)
(* deserialize_cleanup_interval: the parser serde runs on the              *)
(* cleanup_interval field, on the serde_json::Value read from the          *)
(* deserializer                                                            *)
(***************************************************************************)

\* The "AxB" arm with checked_mul: a product that does not fit is an error.
DeserializeProductChecked(s, x_pos) ==
    LET left  == ParseU64(Trim(SubSeq(s, 1, x_pos - 1)))
        right == ParseU64(Trim(SubSeq(s, x_pos + 1, Len(s))))
    IN  IF ~left.ok \/ ~right.ok \/ Overflows(MulWide(left.n, right.n))
        THEN Invalid("invalid format")
        ELSE MulU64(left.n, right.n)

\* The "AxB" arm.
DeserializeProduct(s, x_pos) ==
    LET left  == ParseU64(Trim(SubSeq(s, 1, x_pos - 1)))
        right == ParseU64(Trim(SubSeq(s, x_pos + 1, Len(s))))
    IN  IF ~left.ok THEN Invalid("invalid format")
        ELSE IF ~right.ok THEN Invalid("invalid format")
        ELSE MulU64(left.n, right.n)

\* The "Nd" arm.
DeserializeDays(s) ==
    LET num == ParseU64(Trim(SubSeq(s, 1, Len(s) - 1)))
    IN  IF ~num.ok THEN Invalid("invalid format")
        ELSE MulU64(num.n, U64(HoursPerDay))

\* The "Nh" arm.
DeserializeHours(s) ==
    LET num == ParseU64(Trim(SubSeq(s, 1, Len(s) - 1)))
    IN  IF ~num.ok THEN Invalid("invalid format") ELSE Hours(num.n)

\* The string arm, on the trimmed and lower-cased string.
DeserializeIntervalStr(s) ==
    IF Find(s, "x") # 0 THEN DeserializeProduct(s, Find(s, "x"))
    ELSE IF EndsWith(s, "d") THEN DeserializeDays(s)
    ELSE IF EndsWith(s, "h") THEN DeserializeHours(s)
    ELSE LET num == ParseU64(s)
         IN  IF num.ok THEN Hours(num.n)
             ELSE Invalid("invalid format, supported: 168, 7x24, 7d, 168h")

deserialize_cleanup_interval(value) ==
    IF value.kind = "u64" THEN Hours(U64(value.n))
    ELSE IF value.kind = "string"
         THEN DeserializeIntervalStr(ToLowercase(Trim(value.s)))
    ELSE Invalid("must be a number or a string")

DeserializeInterval ==
    /\ dresult = IntervalNotCalled
    /\ dresult' = deserialize_cleanup_interval(ivalue)
    /\ UNCHANGED <<ivalue, iresult, overflowChecks>>
    /\ UNCHANGED <<loadVars, tracingVars, cleanupVars, sectionVars,
                   userVars, authVars>>

\* The longest string drawn from the alphabet, and the largest bare number.
MaxStrLen == 3
MaxNumber == 3

Alphabet == {"0", "2", "7", "x", "X", "d", "D", "h", " ", "+", "-", "a"}

RECURSIVE StringsUpTo(_)
StringsUpTo(n) ==
    IF n = 0 THEN {<<>>}
    ELSE LET shorter == StringsUpTo(n - 1)
         IN  shorter \cup {Append(s, c) : s \in shorter, c \in Alphabet}

\* The strings of the unit test and of the documentation.
DocStrings ==
    { <<"7", "x", "2", "4">>, <<"7", "d">>, <<"1", "6", "8", "h">>,
      <<"1", "6", "8">>, <<"1", "4", "d">>,
      <<"i", "n", "v", "a", "l", "i", "d">>,
      <<" ", "7", " ", "X", " ", "2", "4", " ">>, <<"1", "4", " ", "D">> }

IntervalValues ==
    {NumV(n) : n \in (0..MaxNumber) \cup {168}}
    \cup {TextV(s) : s \in StringsUpTo(MaxStrLen) \cup DocStrings}
    \cup {OtherV(k) : k \in {"negative", "float", "bool", "null", "array"}}

\* Numerals near the ends of the u64 range: 2^32, (2^64 + 2) / 3, u64::MAX
\* and u64::MAX + 1, with 0, 1 and 3 as the other factor.
WideFactors ==
    { <<"0">>,
      <<"1">>,
      <<"3">>,
      <<"4", "2", "9", "4", "9", "6", "7", "2", "9", "6">>,
      <<"6", "1", "4", "8", "9", "1", "4", "6", "9", "1", "2", "3", "6",
         "5", "1", "7", "2", "0", "6">>,
      <<"1", "8", "4", "4", "6", "7", "4", "4", "0", "7", "3", "7", "0",
         "9", "5", "5", "1", "6", "1", "5">>,
      <<"1", "8", "4", "4", "6", "7", "4", "4", "0", "7", "3", "7", "0",
         "9", "5", "5", "1", "6", "1", "6">> }

\* Day counts: 768614336404564650 * 24 is the last multiple of 24 a u64
\* holds.
WideDayCounts ==
    { <<"0">>,
      <<"7">>,
      <<"7", "6", "8", "6", "1", "4", "3", "3", "6", "4", "0", "4", "5",
         "6", "4", "6", "5", "0">>,
      <<"7", "6", "8", "6", "1", "4", "3", "3", "6", "4", "0", "4", "5",
         "6", "4", "6", "5", "1">>,
      <<"1", "8", "4", "4", "6", "7", "4", "4", "0", "7", "3", "7", "0",
         "9", "5", "5", "1", "6", "1", "5">> }

WideValues ==
    {TextV(a \o <<"x">> \o b) : a \in WideFactors, b \in WideFactors}
    \cup {TextV(n \o <<"d">>) : n \in WideDayCounts}
    \cup {TextV(n \o <<"h">>) : n \in WideFactors}
    \cup {TextV(n) : n \in WideFactors}

(***************************************************************************)
(* cleanup_old_logs                                                        *)
(*                                                                         *)
(* A file name is a sequence of one-character strings, so that starts_with *)
(* and ends_with are computed on the characters.                           *)
(***************************************************************************)

\* The characters of the prefixes and suffixes in use.
Chars(str) ==
    CASE str = "app"   -> <<"a", "p", "p">>
      [] str = "-dev"  -> <<"-", "d", "e", "v">>
      [] str = "-prod" -> <<"-", "p", "r", "o", "d">>
      [] str = ".log"  -> <<".", "l", "o", "g">>
      [] str = ".txt"  -> <<".", "t", "x", "t">>
      [] str = ".1"    -> <<".", "1">>
      [] str = ".2"    -> <<".", "2">>
      [] str = ".3"    -> <<".", "3">>

\* str::starts_with, str::ends_with
StartsWith(s, p) == Len(p) <= Len(s) /\ SubSeq(s, 1, Len(p)) = p
EndsWithStr(s, p) ==
    Len(p) <= Len(s) /\ SubSeq(s, Len(s) - Len(p) + 1, Len(s)) = p

\* LoggingConfig::get_file_prefix_with_env
get_file_prefix_with_env(c) ==
    Chars(c.file_prefix)
        \o Chars(IF c.level \in {"trace", "debug"} THEN "-dev" ELSE "-prod")

\* The test of the name alone.
MatchesByName(c, d, n) ==
    /\ StartsWith(n, get_file_prefix_with_env(c))
    /\ EndsWithStr(n, Chars(".log"))

\* The closure of the filter_map: an entry for which path.is_file() holds,
\* which follows symbolic links, and whose name starts with the prefix and
\* ends with ".log".  Such an entry has metadata and a modification time, so
\* the two `.ok()?` never drop an entry here.
Matches(c, d, n) ==
    /\ d[n].kind \in {"file", "link"}
    /\ StartsWith(n, get_file_prefix_with_env(c))
    /\ EndsWithStr(n, Chars(".log"))

Matching(c, d) == {n \in DOMAIN d : Matches(c, d, n)}

\* Every sequence that lists the elements of S once.
RECURSIVE Orderings(_)
Orderings(S) ==
    IF S = {} THEN {<<>>}
    ELSE UNION {{<<x>> \o rest : rest \in Orderings(S \ {x})} : x \in S}

\* The comparator with its arguments exchanged: a.1.cmp(&b.1).
OldestFirst(list, d) ==
    \A i, j \in 1..Len(list) : i < j => d[list[i]].mtime <= d[list[j]].mtime

\* log_files.sort_by(|a, b| b.1.cmp(&a.1)): newest first.
NewestFirst(list, d) ==
    \A i, j \in 1..Len(list) : i < j => d[list[i]].mtime >= d[list[j]].mtime

\* What log_files can hold after the sort: read_dir yields the entries in any
\* order and the sort is stable, so files of equal time stay in that order.
SortedListings(c, d) ==
    {list \in Orderings(Matching(c, d)) : NewestFirst(list, d)}

\* The largest max_files, the latest modification time and the most files
\* that cannot be removed, among those tried.
MaxKeep   == 2
MaxMtime  == 3
MaxLocked == 1

\* A directory entry.  remove_file fails on a file that is locked (in use,
\* or in a directory that refuses the removal) as on one that is gone.
Absent == [kind |-> "absent", mtime |-> 0, locked |-> FALSE]

Rotated ==
    { Chars("app") \o Chars("-prod") \o Chars(".1") \o Chars(".log"),
      Chars("app") \o Chars("-prod") \o Chars(".2") \o Chars(".log"),
      Chars("app") \o Chars("-prod") \o Chars(".3") \o Chars(".log") }

NamePool ==
    Rotated
    \cup { Chars("app") \o Chars("-dev") \o Chars(".1") \o Chars(".log"),
           Chars("app") \o Chars("-prod") \o Chars(".1") \o Chars(".txt") }

\* What a name of the pool may be: the three rotated files take every time,
\* the two other names are absent, a directory or an old file.  A "link" is
\* a symbolic link to a regular file, with the link's own time.
Entries(n) ==
    {Absent, [kind |-> "dir", mtime |-> 0, locked |-> FALSE]}
    \cup (IF n \in Rotated
          THEN {[kind |-> "link", mtime |-> 1, locked |-> FALSE]} ELSE {})
    \cup {[kind |-> "file", mtime |-> t, locked |-> l] :
             t \in IF n \in Rotated THEN 1..MaxMtime ELSE {1},
             l \in IF n \in Rotated THEN BOOLEAN ELSE {FALSE}}

Dirs ==
    {d \in [NamePool -> UNION {Entries(n) : n \in NamePool}] :
        /\ \A n \in NamePool : d[n] \in Entries(n)
        /\ Cardinality({n \in NamePool : d[n].locked}) <= MaxLocked}

CleanupConfigs ==
    { [LoggingDefault EXCEPT !.max_files = m, !.level = l, !.file = TRUE] :
        m \in 0..MaxKeep, l \in {"info", "debug"} }

EmptyDir == [n \in NamePool |-> Absent]

\* No file: the file sink is not running.
NoFile == <<>>

\* The invocations of cleanup_old_logs: a public function of the crate, which
\* two callers may be running at once.
Procs == {1, 2}

Other(p) == CHOOSE q \in Procs : q # p

Idle ==
    [pc |-> "idle", result |-> "", log_files |-> <<>>, i |-> 0,
     removed |-> {}, warned |-> {}, before |-> EmptyDir, sequel |-> FALSE]

CleanupIdle == [p \in Procs |-> Idle]

NoOrder == [known |-> FALSE, names |-> <<>>]

CleanupDone(st, result) == [st EXCEPT !.pc = "done", !.result = result]

\* The second early return dropped: only a missing directory ends the call.
EarlyReturnOnMissingOnly(c, kind) == kind = "missing"

\* `if config.max_files == 0 { return Ok(()) }`, `if !log_dir.exists()
\* { return Ok(()) }`
EarlyReturn(c, kind) == c.max_files = 0 \/ kind = "missing"

\* Only the last file of the list removed.
SkipAllButLast(list, c) == Len(list)

\* log_files.iter().skip(config.max_files): where the removals start.
SkipKept(list, c) == c.max_files + 1

\* What log_files can hold after the sort.  read_dir gives the entries of a
\* directory in an order of its own, the same for the entries that remain
\* when nothing but removals has happened since, and the sort is stable: the
\* first listing fixes the order of the files of equal time.
Listings(c, d) ==
    IF readOrder.known
    THEN {SelectSeq(readOrder.names, LAMBDA n : Matches(c, d, n))}
    ELSE SortedListings(c, d)

\* cleanup_old_logs up to the sort: the early returns, read_dir, the filter,
\* the sort and the test of the length.
CleanupScan(p) ==
    /\ cleanup[p].pc = "idle"
    /\ LET st == [cleanup[p] EXCEPT !.before = dir,
                                    !.sequel = cleanup[Other(p)].pc = "done"]
       IN  IF EarlyReturn(ccfg, dirKind)
           THEN /\ cleanup' = [cleanup EXCEPT ![p] = CleanupDone(st, "ok")]
                /\ readOrder' = readOrder
           ELSE IF dirKind = "notdir"
           THEN /\ cleanup' = [cleanup EXCEPT ![p] = CleanupDone(st, "err_io")]
                /\ readOrder' = readOrder
           ELSE \E list \in Listings(ccfg, dir) :
                  /\ readOrder' = [known |-> TRUE,
                                   names |-> IF readOrder.known
                                             THEN readOrder.names ELSE list]
                  /\ cleanup' = [cleanup EXCEPT ![p] =
                        IF Len(list) > ccfg.max_files
                        THEN [st EXCEPT !.pc = "removing", !.log_files = list,
                                        !.i = SkipKept(list, ccfg)]
                        ELSE CleanupDone([st EXCEPT !.log_files = list], "ok")]
    /\ UNCHANGED <<ccfg, dirKind, dir0, dir, activeFile>>
    /\ UNCHANGED <<loadVars, tracingVars, intervalVars, sectionVars,
                   userVars, authVars>>

\* The loop left with an error at the first removal that fails.
CleanupRemoveAbort(p) ==
    /\ cleanup[p].pc = "removing"
    /\ LET path == cleanup[p].log_files[cleanup[p].i]
           last == cleanup[p].i = Len(cleanup[p].log_files)
           next == [cleanup[p] EXCEPT !.i = cleanup[p].i + 1,
                                      !.pc = IF last THEN "done" ELSE "removing",
                                      !.result = IF last THEN "ok" ELSE ""]
       IN  IF dir[path].kind # "absent" /\ ~dir[path].locked
           THEN /\ dir' = [dir EXCEPT ![path] = Absent]
                /\ cleanup' = [cleanup EXCEPT ![p] =
                                  [next EXCEPT !.removed = @ \cup {path}]]
           ELSE /\ dir' = dir
                /\ cleanup' = [cleanup EXCEPT ![p] =
                                  CleanupDone([cleanup[p] EXCEPT
                                                  !.warned = @ \cup {path}],
                                              "err_io")]
    /\ UNCHANGED <<ccfg, dirKind, dir0, activeFile, readOrder>>
    /\ UNCHANGED <<loadVars, tracingVars, intervalVars, sectionVars,
                   userVars, authVars>>

\* A file found gone taken for an error that ends the call.
CleanupRemoveStrict(p) ==
    /\ cleanup[p].pc = "removing"
    /\ LET path == cleanup[p].log_files[cleanup[p].i]
           last == cleanup[p].i = Len(cleanup[p].log_files)
           next == [cleanup[p] EXCEPT !.i = cleanup[p].i + 1,
                                      !.pc = IF last THEN "done" ELSE "removing",
                                      !.result = IF last THEN "ok" ELSE ""]
       IN  IF dir[path].kind # "absent" /\ ~dir[path].locked
           THEN /\ dir' = [dir EXCEPT ![path] = Absent]
                /\ cleanup' = [cleanup EXCEPT ![p] =
                                  [next EXCEPT !.removed = @ \cup {path}]]
           ELSE /\ dir' = dir
                /\ cleanup' = [cleanup EXCEPT ![p] =
                                  IF dir[path].kind = "absent"
                                  THEN CleanupDone([next EXCEPT
                                                      !.warned = @ \cup {path}],
                                                   "err_not_found")
                                  ELSE [next EXCEPT !.warned = @ \cup {path}]]
    /\ UNCHANGED <<ccfg, dirKind, dir0, activeFile, readOrder>>
    /\ UNCHANGED <<loadVars, tracingVars, intervalVars, sectionVars,
                   userVars, authVars>>

\* One turn of the loop over log_files.iter().skip(max_files): remove_file
\* succeeds (info) or fails (warn), and the loop goes on either way.
CleanupRemove(p) ==
    /\ cleanup[p].pc = "removing"
    /\ LET path == cleanup[p].log_files[cleanup[p].i]
           last == cleanup[p].i = Len(cleanup[p].log_files)
           next == [cleanup[p] EXCEPT !.i = cleanup[p].i + 1,
                                      !.pc = IF last THEN "done" ELSE "removing",
                                      !.result = IF last THEN "ok" ELSE ""]
       IN  IF dir[path].kind # "absent" /\ ~dir[path].locked
           THEN /\ dir' = [dir EXCEPT ![path] = Absent]
                /\ cleanup' = [cleanup EXCEPT ![p] =
                                  [next EXCEPT !.removed = @ \cup {path}]]
           ELSE /\ dir' = dir
                /\ cleanup' = [cleanup EXCEPT ![p] =
                                  [next EXCEPT !.warned = @ \cup {path}]]
    /\ UNCHANGED <<ccfg, dirKind, dir0, activeFile, readOrder>>
    /\ UNCHANGED <<loadVars, tracingVars, intervalVars, sectionVars,
                   userVars, authVars>>


(***************************************************************************)
(* Specifications: one per operation, the other operations' variables at   *)
(* rest.                                                                   *)
(***************************************************************************)

(***************************************************************************)
(* ConfigSection::load_from_value, per section                             *)
(***************************************************************************)

\* serde_json::Value: as_object() is Some for an object, whose members are
\* values; a bool is told by as_bool().
BoolJ(b) == [kind |-> IF b THEN "true" ELSE "false", n |-> 0, s |-> <<>>]

NoMembers == [k \in {} |-> OtherV("null")]
JObject(members) ==
    [object |-> TRUE, members |-> members, scalar |-> OtherV("null")]
JScalar(v) == [object |-> FALSE, members |-> NoMembers, scalar |-> v]

\* str::to_string on the characters of a JSON string.
RECURSIVE to_string(_)
to_string(s) == IF s = <<>> THEN "" ELSE Head(s) \o to_string(Tail(s))

\* obj.get(key).and_then(|v| v.as_str()) and its like are Some.
HasStr(obj, key)  == key \in DOMAIN obj /\ obj[key].kind = "string"
HasU64(obj, key)  == key \in DOMAIN obj /\ obj[key].kind = "u64"
HasBool(obj, key) == key \in DOMAIN obj /\ obj[key].kind \in {"true", "false"}

\* `if let Some(x) = obj.get(key).and_then(..) { self.field = x }`
SetStr(obj, key, current) ==
    IF HasStr(obj, key) THEN to_string(obj[key].s) ELSE current
SetU64(obj, key, current) ==
    IF HasU64(obj, key) THEN obj[key].n ELSE current
SetBool(obj, key, current) ==
    IF HasBool(obj, key) THEN obj[key].kind = "true" ELSE current
SetOpt(obj, key, current) ==
    IF HasStr(obj, key) THEN Some(to_string(obj[key].s)) ELSE current

\* `port as u16`
U16Modulus == 65536

LoadedSection(section, result) == [section |-> section, result |-> result]

ServerLoadFromValue(s, value) ==
    IF ~value.object THEN LoadedSection(s, OK)
    ELSE LET obj == value.members
         IN  LoadedSection([host    |-> SetStr(obj, "host", s.host),
                     port    |-> IF HasU64(obj, "port")
                                 THEN obj["port"].n % U16Modulus ELSE s.port,
                     timeout |-> SetU64(obj, "timeout", s.timeout)], OK)

\* The section rebuilt from its defaults: a key the value lacks resets the
\* field.
DatabaseLoadFromDefault(s, value) ==
    IF ~value.object THEN LoadedSection(s, OK)
    ELSE LET obj == value.members
         IN  LoadedSection([url             |-> SetStr(obj, "url", DatabaseDefault.url),
                     max_connections |->
                         SetU64(obj, "max_connections",
                                DatabaseDefault.max_connections),
                     pool_timeout    |->
                         SetU64(obj, "pool_timeout",
                                DatabaseDefault.pool_timeout)], OK)

\* `max_conn as u32`: the numbers in use are below 2^31, which the cast keeps.
DatabaseLoadFromValue(s, value) ==
    IF ~value.object THEN LoadedSection(s, OK)
    ELSE LET obj == value.members
         IN  LoadedSection([url             |-> SetStr(obj, "url", s.url),
                     max_connections |->
                         SetU64(obj, "max_connections", s.max_connections),
                     pool_timeout    |->
                         SetU64(obj, "pool_timeout", s.pool_timeout)], OK)

\* The fields of LoggingConfig before cleanup_interval, assigned in turn.
LoggingLoadFields(s, obj) ==
    [level            |-> SetStr(obj, "level", s.level),
     console_format   |-> SetStr(obj, "console_format", s.console_format),
     console          |-> SetBool(obj, "console", s.console),
     file             |-> SetBool(obj, "file", s.file),
     file_dir         |-> SetStr(obj, "file_dir", s.file_dir),
     file_prefix      |-> SetStr(obj, "file_prefix", s.file_prefix),
     rotation         |-> SetStr(obj, "rotation", s.rotation),
     max_files        |-> SetU64(obj, "max_files", s.max_files),
     cleanup_enabled  |-> SetBool(obj, "cleanup_enabled", s.cleanup_enabled),
     cleanup_interval |-> s.cleanup_interval]

\* An interval that cannot be parsed passed over like any other field.
LoggingLoadLenient(s, value) ==
    IF ~value.object THEN LoadedSection(s, OK)
    ELSE LET obj == value.members
             s1  == LoggingLoadFields(s, obj)
         IN  IF "cleanup_interval" \notin DOMAIN obj THEN LoadedSection(s1, OK)
             ELSE LET r == parse_interval(obj["cleanup_interval"])
                  IN  IF ~r.ok THEN LoadedSection(s1, OK)
                      ELSE LoadedSection([s1 EXCEPT !.cleanup_interval = r.hours], OK)

\* `self.cleanup_interval = self.parse_interval(interval_value)?`: the error
\* returns before the assignment, after the fields above were assigned.
LoggingLoadFromValue(s, value) ==
    IF ~value.object THEN LoadedSection(s, OK)
    ELSE LET obj == value.members
             s1  == LoggingLoadFields(s, obj)
         IN  IF "cleanup_interval" \notin DOMAIN obj THEN LoadedSection(s1, OK)
             ELSE LET r == parse_interval(obj["cleanup_interval"])
                  IN  IF ~r.ok THEN LoadedSection(s1, r.err)
                      ELSE LoadedSection([s1 EXCEPT !.cleanup_interval = r.hours], OK)

SecretsLoadFromValue(s, value) ==
    IF ~value.object THEN LoadedSection(s, OK)
    ELSE LET obj == value.members
         IN  LoadedSection([jwt_secret |-> SetStr(obj, "jwt_secret", s.jwt_secret),
                     redis_url  |-> SetOpt(obj, "redis_url", s.redis_url)], OK)

RedisLoadFromValue(s, value) ==
    IF ~value.object THEN LoadedSection(s, OK)
    ELSE LoadedSection([url |-> SetOpt(value.members, "url", s.url)], OK)

\* The sections whose load_from_value is in the crate's sources.
LoadableSections == {"server", "database", "logging", "secrets", "redis"}

SectionLoadFromValue(name, s, value) ==
    CASE name = "server"   -> ServerLoadFromValue(s, value)
      [] name = "database" -> DatabaseLoadFromValue(s, value)
      [] name = "logging"  -> LoggingLoadFromValue(s, value)
      [] name = "secrets"  -> SecretsLoadFromValue(s, value)
      [] name = "redis"    -> RedisLoadFromValue(s, value)

(***************************************************************************)
(* The methods of one section, called in any order on one value            *)
(***************************************************************************)

\* The section `sname` of the configuration.
SectionOf(cfg, name) ==
    CASE name = "server"   -> cfg.server
      [] name = "database" -> cfg.database
      [] name = "logging"  -> cfg.logging
      [] name = "secrets"  -> cfg.secrets
      [] name = "cors"     -> cfg.cors
      [] name = "redis"    -> cfg.redis

WithSection(cfg, name, s) ==
    CASE name = "server"   -> [cfg EXCEPT !.server = s]
      [] name = "database" -> [cfg EXCEPT !.database = s]
      [] name = "logging"  -> [cfg EXCEPT !.logging = s]
      [] name = "secrets"  -> [cfg EXCEPT !.secrets = s]
      [] name = "cors"     -> [cfg EXCEPT !.cors = s]
      [] name = "redis"    -> [cfg EXCEPT !.redis = s]

\* How many calls are made on the section.
MaxSteps == 4

Called(op, before, after, result) ==
    [op |-> op, before |-> before, after |-> after, result |-> result]

\* section.apply_env_overrides(): no section's override returns Err.
SectionOverrideCall ==
    /\ Len(slog) < MaxSteps
    /\ LET after == SectionApplyEnvOverrides(sname, sconfig, env)
       IN  /\ sconfig' = after
           /\ slog' = Append(slog, Called("apply_env_overrides",
                                          SectionOf(sconfig, sname),
                                          SectionOf(after, sname), OK))
    /\ UNCHANGED <<sname, svalue>>
    /\ UNCHANGED <<loadVars, tracingVars, cleanupVars, intervalVars,
                   userVars, authVars>>

\* section.validate(): `&self`, the section is only read.
SectionValidateCall ==
    /\ Len(slog) < MaxSteps
    /\ slog' = Append(slog, Called("validate", SectionOf(sconfig, sname),
                                   SectionOf(sconfig, sname),
                                   SectionValidate(sname, sconfig)))
    /\ UNCHANGED <<sname, sconfig, svalue>>
    /\ UNCHANGED <<loadVars, tracingVars, cleanupVars, intervalVars,
                   userVars, authVars>>

\* section.load_from_value(&value)
SectionLoadCall ==
    /\ Len(slog) < MaxSteps
    /\ sname \in LoadableSections
    /\ LET out == SectionLoadFromValue(sname, SectionOf(sconfig, sname), svalue)
       IN  /\ sconfig' = WithSection(sconfig, sname, out.section)
           /\ slog' = Append(slog, Called("load_from_value",
                                          SectionOf(sconfig, sname),
                                          out.section, out.result))
    /\ UNCHANGED <<sname, svalue>>
    /\ UNCHANGED <<loadVars, tracingVars, cleanupVars, intervalVars,
                   userVars, authVars>>

(***************************************************************************)
(* Inputs of the section methods                                           *)
(***************************************************************************)

\* The values a section may hold when a method is called on it.
SectionStates(name) ==
    CASE name = "server" ->
            {[ServerDefault EXCEPT !.port = p, !.timeout = t] :
                p \in {0, 8080}, t \in {0, 60}}
      [] name = "database" ->
            {[DatabaseDefault EXCEPT !.url = u, !.max_connections = m] :
                u \in {"", "postgres://file"}, m \in {0, 5}}
      [] name = "logging" ->
            {[LoggingDefault EXCEPT !.level = l, !.rotation = r,
                                    !.cleanup_interval = i] :
                l \in {"debug", "verbose"}, r \in {"hourly", "weekly"},
                i \in {U64(24)}}
      [] name = "secrets" ->
            {[jwt_secret |-> j, redis_url |-> r] :
                j \in {"", "short", LongSecret \o "file"},
                r \in {None, Some("redis://file")}}
      [] name = "cors" -> {[valid |-> v] : v \in BOOLEAN}
      [] name = "redis" -> {[url |-> u] : u \in {None, Some("redis://file")}}

\* The members a JSON object may have for a section: <<key, value>>.
Members(name) ==
    CASE name = "server" ->
            { <<"host", TextV(<<"h">>)>>, <<"host", NumV(1)>>,
              <<"port", NumV(0)>>, <<"port", NumV(65616)>>,
              <<"port", TextV(<<"8", "0">>)>>, <<"port", OtherV("negative")>>,
              <<"timeout", NumV(5)>>, <<"timeout", OtherV("float")>>,
              <<"other", NumV(1)>> }
      [] name = "database" ->
            { <<"url", TextV(<<"u">>)>>, <<"url", OtherV("null")>>,
              <<"max_connections", NumV(7)>>,
              <<"max_connections", TextV(<<"7">>)>>,
              <<"pool_timeout", NumV(9)>>, <<"pool_timeout", BoolJ(TRUE)>> }
      [] name = "logging" ->
            { <<"level", TextV(<<"w", "a", "r", "n">>)>>, <<"level", NumV(3)>>,
              <<"console", BoolJ(FALSE)>>, <<"console", TextV(<<"n", "o">>)>>,
              <<"rotation", TextV(<<"n", "e", "v", "e", "r">>)>>,
              <<"max_files", NumV(7)>>, <<"max_files", OtherV("negative")>>,
              <<"cleanup_interval", NumV(12)>>,
              <<"cleanup_interval", TextV(<<"2", "d">>)>>,
              <<"cleanup_interval", TextV(<<"2", "w">>)>>,
              <<"cleanup_interval", BoolJ(TRUE)>> }
      [] name = "secrets" ->
            { <<"jwt_secret", TextV(<<"k">>)>>, <<"jwt_secret", NumV(1)>>,
              <<"redis_url", TextV(<<"r">>)>>, <<"redis_url", OtherV("null")>> }
      [] name = "redis" ->
            { <<"url", TextV(<<"r">>)>>, <<"url", OtherV("array")>>,
              <<"other", TextV(<<"r">>)>> }
      [] name = "cors" -> {}

\* How many members the object has.
MaxMembers == 2

\* The values handed to load_from_value: objects, and values that are none.
SectionValues(name) ==
    {JObject(LayerOf(ms)) :
        ms \in {m \in KSubsets(Members(name), MaxMembers) : Functional(m)}}
    \cup {JScalar(v) : v \in {NumV(1), TextV(<<"h">>), OtherV("null"),
                              OtherV("array")}}

SectionEnvironments ==
    {MkEnv(d, j, r, None, None, None) :
        d \in {None, Some("postgres://dedicated")},
        j \in {None, Some(LongSecret \o "dedicated")},
        r \in {None, Some("redis://dedicated")}}

(***************************************************************************)
(* The user table, passwords and tokens                                    *)
(***************************************************************************)

\* A row of the table the migration creates; entity::user::Model.
User(id, username, email, password_hash, status) ==
    [id |-> id, username |-> username, email |-> email,
     password_hash |-> password_hash, status |-> status]

\* password::hash_password: a PHC string that holds the salt and the digest
\* of the password; a stored string that is no PHC string cannot be parsed.
hash_password(password) == [phc |-> TRUE, password |-> password]
NotAHash == [phc |-> FALSE, password |-> ""]

\* password::verify_password: Err for a stored string that PasswordHash::new
\* refuses, else Ok(whether the password gives the digest).
verify_password(password, password_hash) ==
    IF ~password_hash.phc THEN [ok |-> FALSE, valid |-> FALSE]
    ELSE [ok |-> TRUE, valid |-> password_hash.password = password]

\* `7 * 24 * 3600`
TokenLifetime == 604800

\* Validation::default(): sixty seconds of leeway on `exp`.
Leeway == 60

\* The secret of the JwtService of the application state.
ServerSecret == "server-secret"

\* JwtService::generate_token: Claims::new signed with the encoding key.
Token(sub, iat, exp, secret, alg) ==
    [sub |-> sub, iat |-> iat, exp |-> exp, secret |-> secret, alg |-> alg]

generate_token(user_id, expires_in_secs, t) ==
    Token(user_id, t, t + expires_in_secs, ServerSecret, "HS256")

NoToken == Token(0, 0, 0, "", "")

(***************************************************************************)
(* UserService::register                                                   *)
(*                                                                         *)
(* A call runs up to each `.await` on the database in one step: the two    *)
(* queries and the insert of one call interleave with those of another.    *)
(***************************************************************************)

RegisterRequest(username, email, password, password_confirm) ==
    [username |-> username, email |-> email, password |-> password,
     password_confirm |-> password_confirm]

NoRegister == RegisterRequest("", "", "", "")

\* A call of register: where it is, its request, and what it returned.
RegCall(pc, req) ==
    [pc |-> pc, req |-> req, status |-> "", err |-> "", msg |-> "", id |-> 0]

RegIdle == [p \in Procs |-> RegCall("idle", NoRegister)]

RegReturn(call, err, msg) ==
    [call EXCEPT !.pc = "done", !.status = "err", !.err = err, !.msg = msg]

\* The tests of the request before the first query.
InvalidInput(req) ==
    \/ req.username = "" \/ Len(req.username) < 3 \/ Len(req.username) > 20
    \/ Len(req.password) < 8
    \/ req.password # req.password_confirm

\* The table with no UNIQUE on username and email.
NoUniqueConstraint(table, row) == FALSE

\* string_uniq(Username), string_uniq(Email): the insert of a row whose
\* username or email a stored row has is refused.
UniqueViolation(table, row) ==
    \E r \in table : r.username = row.username \/ r.email = row.email

\* Up to the first `.await`: the tests of the input, then the query by
\* username.
RegisterCheckUsername(p) ==
    /\ reg[p].pc = "start"
    /\ reg' = [reg EXCEPT ![p] =
          IF InvalidInput(reg[p].req) THEN RegReturn(@, "InvalidInput", "")
          ELSE IF ~dbUp THEN RegReturn(@, "Internal", "query failed")
          ELSE IF \E r \in users : r.username = reg[p].req.username
               THEN RegReturn(@, "UserAlreadyExists", "")
          ELSE [@ EXCEPT !.pc = "email"]]
    /\ UNCHANGED <<users, nextId, dbUp, now, lreq, lres>>
    /\ UNCHANGED <<loadVars, tracingVars, cleanupVars, intervalVars,
                   sectionVars, authVars>>

\* The query by email.
RegisterCheckEmail(p) ==
    /\ reg[p].pc = "email"
    /\ reg' = [reg EXCEPT ![p] =
          IF ~dbUp THEN RegReturn(@, "Internal", "query failed")
          ELSE IF \E r \in users : r.email = reg[p].req.email
               THEN RegReturn(@, "UserAlreadyExists", "")
          ELSE [@ EXCEPT !.pc = "insert"]]
    /\ UNCHANGED <<users, nextId, dbUp, now, lreq, lres>>
    /\ UNCHANGED <<loadVars, tracingVars, cleanupVars, intervalVars,
                   sectionVars, authVars>>

\* hash_password, then the insert: the row gets the next key and status 0.
\* A refused insert may or may not have used up a key.
RegisterInsert(p) ==
    /\ reg[p].pc = "insert"
    /\ LET row == User(nextId, reg[p].req.username, reg[p].req.email,
                       hash_password(reg[p].req.password), 0)
       IN  IF ~dbUp \/ UniqueViolation(users, row)
           THEN /\ reg' = [reg EXCEPT ![p] =
                              RegReturn(@, "Internal", "insert failed")]
                /\ nextId' \in {nextId, nextId + 1}
                /\ users' = users
           ELSE /\ reg' = [reg EXCEPT ![p] =
                              [@ EXCEPT !.pc = "done", !.status = "ok",
                                        !.id = row.id]]
                /\ nextId' = nextId + 1
                /\ users' = users \cup {row}
    /\ UNCHANGED <<dbUp, now, lreq, lres>>
    /\ UNCHANGED <<loadVars, tracingVars, cleanupVars, intervalVars,
                   sectionVars, authVars>>

\* The table before the calls: empty, or alice.
Alice == User(1, "alice", "a@x", hash_password("password1"), 0)

RegisterTables == {{}, {Alice}}

RegisterRequests ==
    {RegisterRequest(u, e, pw[1], pw[2]) :
        u \in {"al", "alice", "bobby"}, e \in {"a@x", "b@x"},
        pw \in {<<"password1", "password1">>, <<"short", "short">>,
                <<"password1", "password2">>}}

(***************************************************************************)
(* require_auth                                                            *)
(***************************************************************************)

\* The value of the Authorization header.  `chars` is its text, in which the
\* one character "#" stands for the compact form of `token`; `visible` is
\* whether HeaderValue::to_str() is Ok.
Header(chars, token) ==
    [present |-> TRUE, visible |-> TRUE, chars |-> chars, token |-> token]
OpaqueHeader(token) ==
    [present |-> TRUE, visible |-> FALSE, chars |-> <<>>, token |-> token]
NoHeader ==
    [present |-> FALSE, visible |-> FALSE, chars |-> <<>>, token |-> NoToken]

NoRequest == [header |-> NoHeader]

Bearer == <<"B", "e", "a", "r", "e", "r", " ">>

TokenText == <<"#">>

\* decode with the time of expiry not looked at.
VerifyTokenForever(text, token, t) ==
    /\ text = TokenText
    /\ token.alg = "HS256"
    /\ token.secret = ServerSecret

\* JwtService::verify_token: decode with Validation::default() accepts the
\* text of a token of algorithm HS256, signed with the service's secret,
\* whose `exp` is not more than the leeway in the past.
verify_token(text, token, t) ==
    /\ text = TokenText
    /\ token.alg = "HS256"
    /\ token.secret = ServerSecret
    /\ token.exp >= t - Leeway

\* JwtService::extract_user_id
extract_user_id(text, token, t) ==
    IF verify_token(text, token, t) THEN [ok |-> TRUE, sub |-> token.sub]
    ELSE [ok |-> FALSE, sub |-> 0]

\* What require_auth returned, the CurrentUser in the request's extensions,
\* and the user ids the handler was run with.
AuthNotCalled ==
    [status |-> "notcalled", err |-> "", current_user |-> <<>>, handler |-> <<>>]
AuthErr(err) ==
    [status |-> "err", err |-> err, current_user |-> <<>>, handler |-> <<>>]
AuthOk(user_id) ==
    [status |-> "ok", err |-> "", current_user |-> <<user_id>>,
     handler |-> <<user_id>>]

\* require_auth: the header, the token after "Bearer ", the user id, then
\* next.run(request) with the CurrentUser inserted.
RequireAuthOutcome(req, t) ==
    LET h == req.header
    IN  IF ~(h.present /\ h.visible /\ StartsWith(h.chars, Bearer))
        THEN AuthErr("InvalidInput")
        ELSE LET id == extract_user_id(SubSeq(h.chars, Len(Bearer) + 1,
                                              Len(h.chars)), h.token, t)
             IN  IF ~id.ok THEN AuthErr("InvalidPassword")
                 ELSE AuthOk(id.sub)

RequireAuth ==
    /\ ares.status = "notcalled"
    /\ ares' = RequireAuthOutcome(areq, now)
    /\ UNCHANGED areq
    /\ UNCHANGED <<loadVars, tracingVars, cleanupVars, intervalVars,
                   sectionVars, userVars>>

\* The tokens a request may carry, at time t.
Tokens(t) ==
    {Token(sub, t - 10, exp, secret, alg) :
        sub \in {1, 7},
        exp \in {t - Leeway - 1, t - Leeway, t + TokenLifetime},
        secret \in {ServerSecret, "other-secret"},
        alg \in {"HS256", "none"}}

HeaderTexts ==
    { Bearer \o TokenText,
      <<"b", "e", "a", "r", "e", "r", " ">> \o TokenText,
      <<"B", "e", "a", "r", "e", "r">> \o TokenText,
      Bearer \o <<" ">> \o TokenText,
      Bearer \o TokenText \o <<"x">>,
      <<"B", "a", "s", "i", "c", " ">> \o TokenText,
      Bearer,
      TokenText }

Requests(t) ==
    {[header |-> Header(c, k)] : c \in HeaderTexts, k \in Tokens(t)}
    \cup {[header |-> OpaqueHeader(k)] : k \in Tokens(t)}
    \cup {[header |-> NoHeader]}

(***************************************************************************)
(* UserService::login                                                      *)
(***************************************************************************)

LoginRequest(username_or_email, password) ==
    [username_or_email |-> username_or_email, password |-> password]

NoLogin == LoginRequest("", "")

LoginNotCalled ==
    [status |-> "notcalled", err |-> "", id |-> 0, token |-> NoToken,
     generated |-> <<>>]
LoginErr(err) ==
    [status |-> "err", err |-> err, id |-> 0, token |-> NoToken,
     generated |-> <<>>]
LoginOk(row, token) ==
    [status |-> "ok", err |-> "", id |-> row.id, token |-> token,
     generated |-> <<token>>]

\* Condition::any(): the rows whose username or email is the given text.
MatchingUsers(table, req) ==
    {r \in table : r.username = req.username_or_email
                   \/ r.email = req.username_or_email}

\* The password verified before the status is looked at.
LoginPasswordFirst(row, req, t) ==
    LET v == verify_password(req.password, row.password_hash)
    IN  IF ~v.ok THEN LoginErr("Internal")
        ELSE IF ~v.valid THEN LoginErr("InvalidPassword")
        ELSE IF row.status # 0 THEN LoginErr("UserInactive")
        ELSE LoginOk(row, generate_token(row.id, TokenLifetime, t))

\* login, from the row the query returned on.
LoginFor(row, req, t) ==
    IF row.status # 0 THEN LoginErr("UserInactive")
    ELSE LET v == verify_password(req.password, row.password_hash)
         IN  IF ~v.ok THEN LoginErr("Internal")
             ELSE IF ~v.valid THEN LoginErr("InvalidPassword")
             ELSE LoginOk(row, generate_token(row.id, TokenLifetime, t))

\* login: `.one()` returns one of the rows that match, whichever the
\* database yields first.
LoginOutcomes(table, req, up, t) ==
    IF ~up THEN {LoginErr("Internal")}
    ELSE IF MatchingUsers(table, req) = {} THEN {LoginErr("UserNotFound")}
    ELSE {LoginFor(row, req, t) : row \in MatchingUsers(table, req)}

Login ==
    /\ lres.status = "notcalled"
    /\ lres' \in LoginOutcomes(users, lreq, dbUp, now)
    /\ UNCHANGED <<users, nextId, dbUp, now, reg, lreq>>
    /\ UNCHANGED <<loadVars, tracingVars, cleanupVars, intervalVars,
                   sectionVars, authVars>>

\* The tables login is tried on: alice, bob, and carol whose username is
\* alice's email address.
LoginTables ==
    {a \cup b \cup c :
        a \in {{}} \cup {{User(1, "alice", "alice@x", h, s)} :
                            h \in {hash_password("pw-alice"), NotAHash},
                            s \in {0, 1, 2}},
        b \in {{}} \cup {{User(2, "bob", "bob@x", hash_password("pw-bob"), s)} :
                            s \in {0, 1}},
        c \in {{}} \cup {{User(3, "alice@x", "carol@x",
                               hash_password("pw-carol"), s)} : s \in {0, 1}}}

LoginRequests ==
    {LoginRequest(u, p) :
        u \in {"alice", "alice@x", "bob@x", "nobody"},
        p \in {"pw-alice", "pw-bob", "pw-carol", "wrong"}}


NoEnvironment == [n \in EnvVars |-> None]
AnyFs == [mkdir_ok |-> TRUE, build_ok |-> TRUE]

SpecLoadInit ==
    /\ fileState \in {"missing", "ok", "unparsable"}
    /\ \E ts \in KSubsets(Tagged, MaxLayerKeys) :
          /\ Functional(Picked(ts, "file"))
          /\ Functional(Picked(ts, "prefixed"))
          /\ fileState # "ok" => Picked(ts, "file") = {}
          /\ fileLayer = LayerOf(Picked(ts, "file"))
          /\ prefixedVars = LayerOf(Picked(ts, "prefixed"))
          /\ prefixedLayer = EnvironmentLayer(LayerOf(Picked(ts, "prefixed")))
    /\ env \in Environments
    /\ loadResult = NotCalled
    /\ calls = <<>>
    /\ tcfg = LoggingDefault /\ tfs = AnyFs /\ tracing = TracingNotCalled
    /\ ccfg = LoggingDefault /\ dirKind = "missing" /\ dir = EmptyDir
    /\ dir0 = EmptyDir /\ cleanup = CleanupIdle
    /\ activeFile = NoFile /\ readOrder = NoOrder
    /\ ivalue = NumV(0) /\ iresult = IntervalNotCalled
    /\ dresult = IntervalNotCalled /\ overflowChecks = FALSE
    /\ sname = "server" /\ sconfig = AppConfigDefault
    /\ svalue = JScalar(OtherV("null")) /\ slog = <<>>
    /\ users = {} /\ nextId = 1 /\ dbUp = TRUE /\ now = 0
    /\ reg = RegIdle /\ lreq = NoLogin /\ lres = LoginNotCalled
    /\ areq = NoRequest /\ ares = AuthNotCalled

SpecTracingInit ==
    /\ tcfg \in TracingConfigs
    /\ tfs \in [mkdir_ok : BOOLEAN, build_ok : BOOLEAN]
    /\ tracing = TracingNotCalled
    /\ fileState = "missing" /\ fileLayer = EmptyLayer
    /\ prefixedVars = NoPrefixedVars /\ prefixedLayer = EmptyLayer
    /\ env = NoEnvironment
    /\ loadResult = NotCalled /\ calls = <<>>
    /\ ccfg = LoggingDefault /\ dirKind = "missing" /\ dir = EmptyDir
    /\ dir0 = EmptyDir /\ cleanup = CleanupIdle
    /\ activeFile = NoFile /\ readOrder = NoOrder
    /\ ivalue = NumV(0) /\ iresult = IntervalNotCalled
    /\ dresult = IntervalNotCalled /\ overflowChecks = FALSE
    /\ sname = "server" /\ sconfig = AppConfigDefault
    /\ svalue = JScalar(OtherV("null")) /\ slog = <<>>
    /\ users = {} /\ nextId = 1 /\ dbUp = TRUE /\ now = 0
    /\ reg = RegIdle /\ lreq = NoLogin /\ lres = LoginNotCalled
    /\ areq = NoRequest /\ ares = AuthNotCalled

SpecCleanupInit ==
    /\ ccfg \in CleanupConfigs
    /\ dirKind \in {"missing", "directory", "notdir"}
    /\ dir \in Dirs
    /\ dirKind # "directory" => dir = EmptyDir
    /\ dir0 = dir
    /\ cleanup = CleanupIdle
    /\ activeFile \in {NoFile} \cup Matching(ccfg, dir)
    /\ readOrder = NoOrder
    /\ fileState = "missing" /\ fileLayer = EmptyLayer
    /\ prefixedVars = NoPrefixedVars /\ prefixedLayer = EmptyLayer
    /\ env = NoEnvironment
    /\ loadResult = NotCalled /\ calls = <<>>
    /\ tcfg = LoggingDefault /\ tfs = AnyFs /\ tracing = TracingNotCalled
    /\ ivalue = NumV(0) /\ iresult = IntervalNotCalled
    /\ dresult = IntervalNotCalled /\ overflowChecks = FALSE
    /\ sname = "server" /\ sconfig = AppConfigDefault
    /\ svalue = JScalar(OtherV("null")) /\ slog = <<>>
    /\ users = {} /\ nextId = 1 /\ dbUp = TRUE /\ now = 0
    /\ reg = RegIdle /\ lreq = NoLogin /\ lres = LoginNotCalled
    /\ areq = NoRequest /\ ares = AuthNotCalled

SpecCleanupTwoInit ==
    /\ ccfg \in CleanupConfigs
    /\ dirKind = "directory"
    /\ dir \in Dirs
    /\ dir0 = dir
    /\ cleanup = CleanupIdle
    /\ activeFile = NoFile
    /\ readOrder = NoOrder
    /\ fileState = "missing" /\ fileLayer = EmptyLayer
    /\ prefixedVars = NoPrefixedVars /\ prefixedLayer = EmptyLayer
    /\ env = NoEnvironment
    /\ loadResult = NotCalled /\ calls = <<>>
    /\ tcfg = LoggingDefault /\ tfs = AnyFs /\ tracing = TracingNotCalled
    /\ ivalue = NumV(0) /\ iresult = IntervalNotCalled
    /\ dresult = IntervalNotCalled /\ overflowChecks = FALSE
    /\ sname = "server" /\ sconfig = AppConfigDefault
    /\ svalue = JScalar(OtherV("null")) /\ slog = <<>>
    /\ users = {} /\ nextId = 1 /\ dbUp = TRUE /\ now = 0
    /\ reg = RegIdle /\ lreq = NoLogin /\ lres = LoginNotCalled
    /\ areq = NoRequest /\ ares = AuthNotCalled

SpecIntervalInit ==
    /\ ivalue \in IntervalValues
    /\ iresult = IntervalNotCalled
    /\ dresult = IntervalNotCalled
    /\ overflowChecks \in BOOLEAN
    /\ fileState = "missing" /\ fileLayer = EmptyLayer
    /\ prefixedVars = NoPrefixedVars /\ prefixedLayer = EmptyLayer
    /\ env = NoEnvironment
    /\ loadResult = NotCalled /\ calls = <<>>
    /\ tcfg = LoggingDefault /\ tfs = AnyFs /\ tracing = TracingNotCalled
    /\ ccfg = LoggingDefault /\ dirKind = "missing" /\ dir = EmptyDir
    /\ dir0 = EmptyDir /\ cleanup = CleanupIdle
    /\ activeFile = NoFile /\ readOrder = NoOrder
    /\ sname = "server" /\ sconfig = AppConfigDefault
    /\ svalue = JScalar(OtherV("null")) /\ slog = <<>>
    /\ users = {} /\ nextId = 1 /\ dbUp = TRUE /\ now = 0
    /\ reg = RegIdle /\ lreq = NoLogin /\ lres = LoginNotCalled
    /\ areq = NoRequest /\ ares = AuthNotCalled

SpecIntervalWideInit ==
    /\ ivalue \in IntervalValues \cup WideValues
    /\ iresult = IntervalNotCalled
    /\ dresult = IntervalNotCalled
    /\ overflowChecks \in BOOLEAN
    /\ fileState = "missing" /\ fileLayer = EmptyLayer
    /\ prefixedVars = NoPrefixedVars /\ prefixedLayer = EmptyLayer
    /\ env = NoEnvironment
    /\ loadResult = NotCalled /\ calls = <<>>
    /\ tcfg = LoggingDefault /\ tfs = AnyFs /\ tracing = TracingNotCalled
    /\ ccfg = LoggingDefault /\ dirKind = "missing" /\ dir = EmptyDir
    /\ dir0 = EmptyDir /\ cleanup = CleanupIdle
    /\ activeFile = NoFile /\ readOrder = NoOrder
    /\ sname = "server" /\ sconfig = AppConfigDefault
    /\ svalue = JScalar(OtherV("null")) /\ slog = <<>>
    /\ users = {} /\ nextId = 1 /\ dbUp = TRUE /\ now = 0
    /\ reg = RegIdle /\ lreq = NoLogin /\ lres = LoginNotCalled
    /\ areq = NoRequest /\ ares = AuthNotCalled

SpecSectionInit ==
    /\ sname \in {"server", "database", "logging", "secrets", "cors", "redis"}
    /\ \E s \in SectionStates(sname) :
          sconfig = WithSection(AppConfigDefault, sname, s)
    /\ svalue \in SectionValues(sname)
    /\ slog = <<>>
    /\ env \in SectionEnvironments
    /\ fileState = "missing" /\ fileLayer = EmptyLayer
    /\ prefixedVars = NoPrefixedVars /\ prefixedLayer = EmptyLayer
    /\ loadResult = NotCalled /\ calls = <<>>
    /\ tcfg = LoggingDefault /\ tfs = AnyFs /\ tracing = TracingNotCalled
    /\ ccfg = LoggingDefault /\ dirKind = "missing" /\ dir = EmptyDir
    /\ dir0 = EmptyDir /\ cleanup = CleanupIdle
    /\ activeFile = NoFile /\ readOrder = NoOrder
    /\ ivalue = NumV(0) /\ iresult = IntervalNotCalled
    /\ dresult = IntervalNotCalled /\ overflowChecks = FALSE
    /\ users = {} /\ nextId = 1 /\ dbUp = TRUE /\ now = 0
    /\ reg = RegIdle /\ lreq = NoLogin /\ lres = LoginNotCalled
    /\ areq = NoRequest /\ ares = AuthNotCalled

SpecLoginInit ==
    /\ users \in LoginTables
    /\ lreq \in LoginRequests
    /\ dbUp \in BOOLEAN
    /\ now \in {1000}
    /\ lres = LoginNotCalled
    /\ nextId = 4 /\ reg = RegIdle
    /\ areq = NoRequest /\ ares = AuthNotCalled
    /\ fileState = "missing" /\ fileLayer = EmptyLayer
    /\ prefixedVars = NoPrefixedVars /\ prefixedLayer = EmptyLayer
    /\ env = NoEnvironment
    /\ loadResult = NotCalled /\ calls = <<>>
    /\ tcfg = LoggingDefault /\ tfs = AnyFs /\ tracing = TracingNotCalled
    /\ ccfg = LoggingDefault /\ dirKind = "missing" /\ dir = EmptyDir
    /\ dir0 = EmptyDir /\ cleanup = CleanupIdle
    /\ activeFile = NoFile /\ readOrder = NoOrder
    /\ ivalue = NumV(0) /\ iresult = IntervalNotCalled
    /\ dresult = IntervalNotCalled /\ overflowChecks = FALSE
    /\ sname = "server" /\ sconfig = AppConfigDefault
    /\ svalue = JScalar(OtherV("null")) /\ slog = <<>>

SpecAuthInit ==
    /\ now = 1000
    /\ areq \in Requests(now)
    /\ ares = AuthNotCalled
    /\ users = {} /\ nextId = 1 /\ dbUp = TRUE
    /\ reg = RegIdle /\ lreq = NoLogin /\ lres = LoginNotCalled
    /\ fileState = "missing" /\ fileLayer = EmptyLayer
    /\ prefixedVars = NoPrefixedVars /\ prefixedLayer = EmptyLayer
    /\ env = NoEnvironment
    /\ loadResult = NotCalled /\ calls = <<>>
    /\ tcfg = LoggingDefault /\ tfs = AnyFs /\ tracing = TracingNotCalled
    /\ ccfg = LoggingDefault /\ dirKind = "missing" /\ dir = EmptyDir
    /\ dir0 = EmptyDir /\ cleanup = CleanupIdle
    /\ activeFile = NoFile /\ readOrder = NoOrder
    /\ ivalue = NumV(0) /\ iresult = IntervalNotCalled
    /\ dresult = IntervalNotCalled /\ overflowChecks = FALSE
    /\ sname = "server" /\ sconfig = AppConfigDefault
    /\ svalue = JScalar(OtherV("null")) /\ slog = <<>>

SpecRegisterInit ==
    /\ users \in RegisterTables
    /\ nextId = 2
    /\ dbUp \in BOOLEAN
    /\ reg \in [Procs -> {RegCall("start", r) : r \in RegisterRequests}]
    /\ now = 1000 /\ lreq = NoLogin /\ lres = LoginNotCalled
    /\ areq = NoRequest /\ ares = AuthNotCalled
    /\ fileState = "missing" /\ fileLayer = EmptyLayer
    /\ prefixedVars = NoPrefixedVars /\ prefixedLayer = EmptyLayer
    /\ env = NoEnvironment
    /\ loadResult = NotCalled /\ calls = <<>>
    /\ tcfg = LoggingDefault /\ tfs = AnyFs /\ tracing = TracingNotCalled
    /\ ccfg = LoggingDefault /\ dirKind = "missing" /\ dir = EmptyDir
    /\ dir0 = EmptyDir /\ cleanup = CleanupIdle
    /\ activeFile = NoFile /\ readOrder = NoOrder
    /\ ivalue = NumV(0) /\ iresult = IntervalNotCalled
    /\ dresult = IntervalNotCalled /\ overflowChecks = FALSE
    /\ sname = "server" /\ sconfig = AppConfigDefault
    /\ svalue = JScalar(OtherV("null")) /\ slog = <<>>

LoadNext     == Load
TracingNext  == InitTracing \/ ValidateLogging
CleanupNext  == CleanupScan(1) \/ CleanupRemove(1)
CleanupTwoNext == \E p \in Procs : CleanupScan(p) \/ CleanupRemove(p)
IntervalNext == ParseInterval \/ DeserializeInterval
SectionNext  == SectionOverrideCall \/ SectionValidateCall \/ SectionLoadCall
LoginNext    == Login
AuthNext     == RequireAuth
RegisterNext ==
    \E p \in Procs :
        RegisterCheckUsername(p) \/ RegisterCheckEmail(p) \/ RegisterInsert(p)

SpecLoad     == SpecLoadInit /\ [][LoadNext]_vars
SpecTracing  == SpecTracingInit /\ [][TracingNext]_vars
SpecCleanup  == SpecCleanupInit /\ [][CleanupNext]_vars
SpecCleanupTwo == SpecCleanupTwoInit /\ [][CleanupTwoNext]_vars
SpecInterval == SpecIntervalInit /\ [][IntervalNext]_vars
SpecIntervalWide == SpecIntervalWideInit /\ [][IntervalNext]_vars
SpecSection  == SpecSectionInit /\ [][SectionNext]_vars
SpecLogin    == SpecLoginInit /\ [][LoginNext]_vars
SpecAuth     == SpecAuthInit /\ [][AuthNext]_vars
SpecRegister == SpecRegisterInit /\ [][RegisterNext]_vars

(***************************************************************************)
(* Properties                                                              *)
(***************************************************************************)

\* ---- cleanup_old_logs

FilesBefore == Matching(ccfg, dir0)
FilesAfter  == Matching(ccfg, dir)

\* One call has returned, no removal failed, and no other call was made.
CleanupRanClean ==
    /\ cleanup[1].pc = "done"
    /\ cleanup[2].pc = "idle"
    /\ ccfg.max_files > 0
    /\ dirKind = "directory"
    /\ cleanup[1].warned = {}

\* C1: with max_files = N > 0, once cleanup_old_logs has returned with no
\* deletion failed, the matching files left are min(N, count) of the matching
\* files there were, unchanged, and none of them is older than any file that
\* was deleted (so every file older than the N newest is gone and the N newest
\* are kept; files of equal time are interchangeable); when count <= N the
\* directory is as it was.
C1_KeepsNewest ==
    CleanupRanClean =>
        /\ cleanup[1].result = "ok"
        /\ FilesAfter \subseteq FilesBefore
        /\ Cardinality(FilesAfter) = Min(ccfg.max_files, Cardinality(FilesBefore))
        /\ \A k \in FilesAfter : dir[k] = dir0[k]
        /\ \A k \in FilesAfter, d \in FilesBefore \ FilesAfter :
              dir0[d].mtime <= dir0[k].mtime
        /\ Cardinality(FilesBefore) <= ccfg.max_files => dir = dir0

\* Three matching files of three different times, max_files = 2: the oldest
\* one is gone.
C1_Witness ==
    /\ CleanupRanClean
    /\ ccfg.max_files = 2
    /\ Cardinality(FilesBefore) = 3
    /\ Cardinality({dir0[n].mtime : n \in FilesBefore}) = 3
    /\ Cardinality(FilesAfter) = 2

\* ---- AppConfig::load

Loaded == loadResult.status = "ok"
LoadReturned == loadResult.status # "notcalled"

FileSets(k) == fileState = "ok" /\ k \in DOMAIN fileLayer
PrefixedSets(k) == k \in DOMAIN prefixedLayer

\* The database URL of the highest source that sets it.
HighestDatabaseUrl ==
    IF env["DATABASE_URL"].some THEN env["DATABASE_URL"].v
    ELSE IF PrefixedSets("database.url") THEN prefixedLayer["database.url"].s
    ELSE IF FileSets("database.url") THEN fileLayer["database.url"].s
    ELSE ""

\* C2: the database URL of the configuration load returns is the value of the
\* highest source that sets it, in the order default < file < prefixed
\* environment < DATABASE_URL; when load fails it returns no configuration, so
\* no other value either.
C2_DatabaseUrlPrecedence ==
    /\ Loaded => loadResult.config.database.url = HighestDatabaseUrl
    /\ (LoadReturned /\ ~Loaded) => loadResult.config = NoConfig

\* The prefixed layer and DATABASE_URL both set the URL, and load returned the
\* one of DATABASE_URL.
C2_Witness ==
    /\ Loaded
    /\ PrefixedSets("database.url")
    /\ env["DATABASE_URL"].some
    /\ loadResult.config.database.url = "postgres://dedicated"
    /\ prefixedLayer["database.url"].s = "postgres://prefixed"

SigningKeyUnset ==
    /\ ~env["JWT_SECRET"].some
    /\ "secrets.jwt_secret" \notin DOMAIN Merged

\* Nothing but the database URL is set by the file and the prefixed layer, and
\* the file, if any, parses: every section but secrets is valid.
OnlyDatabaseUrlSet ==
    /\ fileState # "unparsable"
    /\ DOMAIN Merged \subseteq {"database.url"}
    /\ HighestDatabaseUrl # ""

\* C3: with the signing key set by no source and the database URL set, load
\* fails with the missing-variable error naming JWT_SECRET and returns no
\* configuration.  (Stated where everything else is valid.)
C3_MissingSigningKey ==
    (LoadReturned /\ SigningKeyUnset /\ OnlyDatabaseUrlSet) =>
        /\ loadResult.status = "err"
        /\ loadResult.err.kind = MissingVar("JWT_SECRET").kind
        /\ loadResult.err.var_name = "JWT_SECRET"
        /\ loadResult.config = NoConfig

\* C5: the logging section of every configuration load returns, having passed
\* validate, has console or file enabled.
C5_OneSinkAfterValidation ==
    Loaded => (loadResult.config.logging.console \/ loadResult.config.logging.file)

\* The configuration load hands to validate: deserialized, then overridden.
Overridden == AppApplyEnvOverrides(Deserialize(Merged), env).config

\* The first section of the order that is invalid, 0 when all are valid.
FirstInvalid ==
    IF \E i \in 1..Len(Sections) : SectionValidate(Sections[i], Overridden) # OK
    THEN CHOOSE i \in 1..Len(Sections) :
            /\ SectionValidate(Sections[i], Overridden) # OK
            /\ \A j \in 1..(i - 1) : SectionValidate(Sections[j], Overridden) = OK
    ELSE 0

ReachesSections == LoadReturned /\ ~BuildFails /\ ~DeserializeFails(Merged)

\* C6: load calls apply_env_overrides on server, database, logging, secrets,
\* cors, redis, in this order, before any validate; then validate in the same
\* order up to and including the first section that fails, and no further; the
\* error is that section's name and message; with no section failing all six
\* are validated and load succeeds.
C6_OverridesThenValidateInOrder ==
    ReachesSections =>
        LET last == IF FirstInvalid = 0 THEN Len(Sections) ELSE FirstInvalid
        IN  /\ Len(calls) = Len(Sections) + last
            /\ \A i \in 1..Len(Sections) :
                  calls[i] = <<"apply_env_overrides", Sections[i]>>
            /\ \A i \in 1..last :
                  calls[Len(Sections) + i] = <<"validate", Sections[i]>>
            /\ FirstInvalid = 0 => Loaded
            /\ FirstInvalid # 0 =>
                  /\ loadResult.status = "err"
                  /\ loadResult.err.kind = "InvalidConfig"
                  /\ loadResult.err.section = Sections[FirstInvalid]
                  /\ loadResult.err.msg =
                        SectionValidate(Sections[FirstInvalid], Overridden)

\* The database section and the secrets section are both invalid: the error
\* is the database section's and secrets was not validated.
C6_Witness ==
    /\ ReachesSections
    /\ DatabaseValidate(Overridden.database) # OK
    /\ SecretsValidate(Overridden.secrets) # OK
    /\ ServerValidate(Overridden.server) = OK
    /\ loadResult.err.section = "database"
    /\ Len(calls) = Len(Sections) + 2

\* C10: a dedicated variable that is present and empty leaves the value of the
\* lower layers: the loaded Redis URL is theirs, and a database URL they set
\* is not reported missing.
C10_EmptyVariableLeavesValue ==
    /\ (Loaded /\ env["REDIS_URL"] = Some("")) =>
          loadResult.config.redis.url = Deserialize(Merged).redis.url
    /\ (LoadReturned /\ env["DATABASE_URL"] = Some("")
          /\ (PrefixedSets("database.url") \/ FileSets("database.url"))) =>
          ~(loadResult.err.section = "database"
            /\ loadResult.err.msg = DatabaseValidate(DatabaseDefault))

\* ---- init_tracing

TracingReturned == tracing.status # "notcalled"

\* C4: init_tracing with console and file both off returns a validation
\* error having done nothing: no directory created, no appender built, no
\* worker started, no subscriber installed.
C4_NoSinkNoEffect ==
    (TracingReturned /\ ~tcfg.console /\ ~tcfg.file) =>
        /\ tracing.status = "err"
        /\ tracing.err.kind = "Validation"
        /\ tracing.effects = <<>>
        /\ tracing.layers = <<>>

C4_Witness ==
    /\ TracingReturned
    /\ ~tcfg.console /\ ~tcfg.file
    /\ tracing.err.kind = "Validation"
    /\ tcfg.rotation = "weekly"

UnknownRotation == tcfg.rotation \notin {"daily", "hourly", "never"}

\* C8: with file output on and a rotation other than daily, hourly, never,
\* init_tracing fails and installs no subscriber, builds no appender and
\* starts no worker; once the directory is there the failure is
\* create_file_appender's validation error, which quotes the value and lists
\* daily, hourly, never.
C8_UnknownRotationRefused ==
    (TracingReturned /\ tcfg.file /\ UnknownRotation) =>
        /\ tracing.status = "err"
        /\ tracing.layers = <<>>
        /\ ~Effect("install_subscriber")
        /\ ~Effect("build_file_appender")
        /\ ~Effect("start_file_worker") /\ ~Effect("start_console_worker")
        /\ tfs.mkdir_ok =>
              /\ tracing.err.kind = "Validation"
              /\ tracing.err.value = tcfg.rotation
              /\ tracing.err.lists = <<"daily", "hourly", "never">>

C8_Witness ==
    /\ TracingReturned
    /\ tcfg.file /\ tcfg.console
    /\ tcfg.rotation = "weekly"
    /\ tracing.err.value = "weekly"
    /\ Effect("create_dir_all")

\* load, given a file that sets the rotation to r and nothing else, with the
\* database URL and the signing key in the environment.
LoadWithRotation(r) ==
    LoadOutcome("ok",
                [k \in {"logging.rotation"} |-> StrV(r)],
                [n \in EnvVars |->
                    CASE n = "DATABASE_URL" -> Some("postgres://dedicated")
                      [] n = "JWT_SECRET"   -> Some(LongSecret)
                      [] OTHER              -> None]).result

\* C9 (as amended): an unrecognised rotation is rejected before any sink is
\* built: the logging section's validate returns an error for it, the error
\* about the rotation when level and console format are valid, and load then
\* fails with the logging section's error; init_tracing itself looks at the
\* rotation only to build the file sink, and succeeds with it when file output
\* is off and console output is on.
C9_RotationRejectedByValidate ==
    UnknownRotation =>
        /\ tracing.validated # "" => tracing.validated # OK
        /\ (tracing.validated # "" /\ tcfg.level \in Levels
               /\ tcfg.console_format \in ConsoleFormats) =>
              tracing.validated = "invalid rotation"
        /\ LoadWithRotation(tcfg.rotation).status = "err"
        /\ LoadWithRotation(tcfg.rotation).err = InvalidConfig("logging", "invalid rotation")
        /\ (TracingReturned /\ ~tcfg.file /\ tcfg.console) => tracing.status = "ok"

C9_Witness ==
    /\ tcfg.rotation = "weekly"
    /\ tracing.validated = "invalid rotation"
    /\ tracing.status = "ok"
    /\ ~tcfg.file

\* C9 (as claimed): an unrecognised rotation does not make the logging
\* section's validate fail, and init_tracing succeeds with it when file output
\* is off.
C9_RotationNotRejectedEarlier ==
    UnknownRotation =>
        /\ tracing.validated # "invalid rotation"
        /\ (TracingReturned /\ ~tcfg.file /\ tcfg.console) => tracing.status = "ok"

\* ---- parse_interval

\* The reading of the claim: the integer a piece of text stands for.
RefInteger(s) ==
    LET t    == Trim(s)
        body == IF t # <<>> /\ Head(t) = "+" THEN Tail(t) ELSE t
    IN  IF body # <<>> /\ \A i \in 1..Len(body) : body[i] \in Digits
        THEN [ok |-> TRUE, n |-> DigitsValue(body)]
        ELSE [ok |-> FALSE, n |-> 0]

RefInterval(value) ==
    IF value.kind = "u64" THEN [ok |-> TRUE, n |-> value.n]
    ELSE IF value.kind # "string" THEN [ok |-> FALSE, n |-> 0]
    ELSE LET t == ToLowercase(Trim(value.s))
             xs == {i \in 1..Len(t) : t[i] = "x"}
             prefix == SubSeq(t, 1, Len(t) - 1)
         IN  IF xs # {}
             THEN LET x == CHOOSE i \in xs : \A j \in xs : i <= j
                      a == RefInteger(SubSeq(t, 1, x - 1))
                      b == RefInteger(SubSeq(t, x + 1, Len(t)))
                  IN  IF a.ok /\ b.ok THEN [ok |-> TRUE, n |-> a.n * b.n]
                      ELSE [ok |-> FALSE, n |-> 0]
             ELSE IF t # <<>> /\ t[Len(t)] = "d"
             THEN IF RefInteger(prefix).ok
                  THEN [ok |-> TRUE, n |-> RefInteger(prefix).n * 24]
                  ELSE [ok |-> FALSE, n |-> 0]
             ELSE IF t # <<>> /\ t[Len(t)] = "h"
             THEN RefInteger(prefix)
             ELSE RefInteger(t)

\* The values the documentation gives: <<input, hours>>, -1 for an error.
DocTable ==
    { <<TextV(<<"7", "x", "2", "4">>), 168>>, <<TextV(<<"7", "d">>), 168>>,
      <<TextV(<<"1", "6", "8", "h">>), 168>>, <<TextV(<<"1", "6", "8">>), 168>>,
      <<NumV(168), 168>>, <<TextV(<<"1", "4", "d">>), 336>>,
      <<TextV(<<"i", "n", "v", "a", "l", "i", "d">>), -1>> }

IntervalReturned == iresult # IntervalNotCalled

ParseBoolOrTrue(v) == IF v = "false" THEN FALSE ELSE TRUE

\* C11: in the configuration load returns, LOG_FILE_DIR when set is the file
\* directory and file output is on; LOG_ROTATION when set is the rotation;
\* LOG_CONSOLE when set decides console output, by its boolean reading, on
\* when it has none.
C11_LoggingVariablesApplied ==
    Loaded =>
        /\ env["LOG_FILE_DIR"].some =>
              /\ loadResult.config.logging.file_dir = env["LOG_FILE_DIR"].v
              /\ loadResult.config.logging.file
        /\ env["LOG_ROTATION"].some =>
              loadResult.config.logging.rotation = env["LOG_ROTATION"].v
        /\ env["LOG_CONSOLE"].some =>
              loadResult.config.logging.console
                 = ParseBoolOrTrue(env["LOG_CONSOLE"].v)

PrefixedVarSet(name) == name \in DOMAIN prefixedVars

\* C12: in the configuration load returns, APP_SERVER_PORT when set is the
\* server port and APP_DATABASE_MAX_CONNECTIONS when set is the database's
\* max_connections.
C12_PrefixedVariableSetsField ==
    Loaded =>
        /\ PrefixedVarSet(<<"APP", "SERVER", "PORT">>) =>
              loadResult.config.server.port
                 = TryParsing(prefixedVars[<<"APP", "SERVER", "PORT">>]).i
        /\ PrefixedVarSet(<<"APP", "DATABASE", "MAX", "CONNECTIONS">>) =>
              loadResult.config.database.max_connections
                 = TryParsing(prefixedVars[<<"APP", "DATABASE", "MAX",
                                             "CONNECTIONS">>]).i

\* ---- AppConfig::load: the file

IllTyped(layer) == \E k \in DOMAIN layer \cap Fields : layer[k].t # FieldType(k)

\* C19: with no configuration file load goes on as with a file that sets
\* nothing, and fails, if it does, for a section's validation, never for the
\* file; with a file that cannot be parsed, or a value of the file that cannot
\* be deserialized into its field, load fails with InvalidConfig before any
\* section is touched and returns no configuration.
C19_MissingFileIsNoError ==
    /\ (LoadReturned /\ fileState = "missing") =>
          /\ loadResult = LoadOutcome("ok", prefixedLayer, env).result
          /\ loadResult.status = "err" =>
                (IllTyped(prefixedLayer) \/ loadResult.err.section \in
                    {Sections[i] : i \in 1..Len(Sections)})
          /\ (~IllTyped(prefixedLayer)
                /\ AppValidate(AppApplyEnvOverrides(Deserialize(prefixedLayer),
                                                    env).config).err = NoError)
                => Loaded
    /\ (LoadReturned /\ fileState = "unparsable") =>
          /\ loadResult = LoadErr(InvalidConfig("", "config build failed"))
          /\ calls = <<>>
    /\ (LoadReturned /\ fileState = "ok" /\ IllTyped(Merged)) =>
          /\ loadResult =
                LoadErr(InvalidConfig("", "config deserialization failed"))
          /\ loadResult.config = NoConfig
          /\ calls = <<>>

\* No file, and load returned the configuration of the environment.
C19_Witness ==
    /\ Loaded
    /\ fileState = "missing"
    /\ loadResult.config.database.url = "postgres://prefixed"
    /\ loadResult.config.server.port = 8080

Returned(p) == cleanup[p].pc = "done"

\* The name does not start with the prefix of the level or does not end with
\* ".log".
WrongName(n) ==
    LET suffix == IF ccfg.level \in {"trace", "debug"} THEN Chars("-dev")
                  ELSE Chars("-prod")
        prefix == Chars(ccfg.file_prefix) \o suffix
    IN  \/ Len(n) < Len(prefix)
        \/ SubSeq(n, 1, Len(prefix)) # prefix
        \/ Len(n) < 4
        \/ SubSeq(n, Len(n) - 3, Len(n)) # <<".", "l", "o", "g">>

C14_NoLimitNoRemoval ==
    /\ (Returned(1) /\ ccfg.max_files = 0) =>
          /\ cleanup[1].result = "ok"
          /\ dir = dir0
          /\ cleanup[1].removed = {} /\ cleanup[1].warned = {}
    /\ (Returned(1) /\ dirKind = "missing") =>
          /\ cleanup[1].result = "ok"
          /\ dir = dir0
          /\ cleanup[1].log_files = <<>> /\ ~readOrder.known

C14_Witness ==
    /\ Returned(1)
    /\ ccfg.max_files = 0
    /\ dirKind = "directory"
    /\ Cardinality(Matching(ccfg, dir)) = 3

\* C15: with max_files >= 1, the file the sink is writing is not among the
\* files cleanup_old_logs removes.
C15_ActiveFileKept ==
    (activeFile # NoFile /\ ccfg.max_files >= 1) =>
        \A p \in Procs : activeFile \notin cleanup[p].removed

\* The files of the listing past the first max_files.
Beyond(p) ==
    {cleanup[p].log_files[k] :
        k \in (ccfg.max_files + 1)..Len(cleanup[p].log_files)}

\* C16: a removal that fails is noted and nothing more: every file of the
\* listing past the first max_files is tried, the ones that could not be
\* removed are left as they were, the others are gone, and the call returns
\* Ok.
C16_FailureDoesNotAbort ==
    (Returned(1) /\ dirKind = "directory" /\ ccfg.max_files > 0) =>
        /\ cleanup[1].result = "ok"
        /\ cleanup[1].removed \cup cleanup[1].warned = Beyond(1)
        /\ cleanup[1].removed \cap cleanup[1].warned = {}
        /\ \A f \in cleanup[1].warned : dir0[f].locked /\ dir[f] = dir0[f]
        /\ \A f \in cleanup[1].removed : dir[f] = Absent

\* A removal failed and a later one of the same call was done.
C16_Witness ==
    /\ Returned(1)
    /\ \E i, j \in 1..Len(cleanup[1].log_files) :
          /\ i < j
          /\ cleanup[1].log_files[i] \in cleanup[1].warned
          /\ cleanup[1].log_files[j] \in cleanup[1].removed

\* ---- cleanup_old_logs: two calls

BothReturned == \A p \in Procs : Returned(p)

Round(i) ==
    /\ i + 1 <= Len(slog)
    /\ slog[i].op = "apply_env_overrides"
    /\ slog[i + 1].op = "validate"

\* No load_from_value was called from call i to call j.
NoLoadBetween(i, j) == \A k \in i..j : slog[k].op # "load_from_value"

\* C21: with the environment fixed, a second apply_env_overrides then
\* validate on a section returns the validation result of the first and
\* leaves the fields as the first left them, and no validate changes a field.
C21_SecondRoundSame ==
    /\ \A i \in 1..Len(slog) :
          slog[i].op = "validate" => slog[i].after = slog[i].before
    /\ \A i, j \in 1..Len(slog) :
          (i < j /\ Round(i) /\ Round(j) /\ NoLoadBetween(i, j))
              => /\ slog[j].after = slog[i].after
                 /\ slog[j + 1].after = slog[i + 1].after
                 /\ slog[j + 1].result = slog[i + 1].result

\* Two rounds on the secrets, the first of which replaced the signing key
\* and was accepted.
C21_Witness ==
    /\ sname = "secrets"
    /\ Len(slog) = 4
    /\ Round(1) /\ Round(3)
    /\ slog[1].before # slog[1].after
    /\ slog[2].result = OK

\* ---- load_from_value

\* What load_from_value asks of the member it reads into a field.
FieldKind(name, field) ==
    CASE field \in {"port", "timeout", "max_connections", "pool_timeout",
                    "max_files"} -> {"u64"}
      [] field \in {"console", "file", "cleanup_enabled"} -> {"true", "false"}
      [] OTHER -> {"string"}

\* The value has no member for the field, or one of another kind.
AbsentOrIllTyped(name, field) ==
    \/ field \notin DOMAIN svalue.members
    \/ svalue.members[field].kind \notin FieldKind(name, field)

\* C22: load_from_value of the server, database, logging, secrets and redis
\* sections leaves a field other than cleanup_interval as it was when the
\* value has no member for it or one of the wrong type, leaves every field
\* as it was when the value is no object, and returns Ok unless the value
\* has a cleanup_interval member.
C22_AbsentOrIllTypedKept ==
    \A i \in 1..Len(slog) :
        slog[i].op = "load_from_value" =>
            /\ ~svalue.object =>
                  slog[i].after = slog[i].before /\ slog[i].result = OK
            /\ svalue.object =>
                  \A f \in (DOMAIN slog[i].before) \ {"cleanup_interval"} :
                      AbsentOrIllTyped(sname, f)
                          => slog[i].after[f] = slog[i].before[f]
            /\ "cleanup_interval" \notin DOMAIN svalue.members
                  => slog[i].result = OK

\* The database section loaded from an object that sets max_connections,
\* gives pool_timeout a bool and has no url.
C22_Witness ==
    /\ sname = "database"
    /\ Len(slog) = 1
    /\ slog[1].op = "load_from_value"
    /\ svalue.object
    /\ DOMAIN svalue.members = {"max_connections", "pool_timeout"}
    /\ svalue.members["pool_timeout"].kind = "true"
    /\ slog[1].before.url = "postgres://file"
    /\ slog[1].after.max_connections = 7
    /\ slog[1].result = OK

\* The object has a cleanup_interval that stands for no interval.
MalformedInterval ==
    /\ svalue.object
    /\ "cleanup_interval" \in DOMAIN svalue.members
    /\ ~RefInterval(svalue.members["cleanup_interval"]).ok

\* C23: LoggingConfig::load_from_value returns an error and leaves
\* cleanup_interval as it was when the value's cleanup_interval is
\* malformed, and returns Ok otherwise, whatever the other members are.
C23_OnlyIntervalIsFatal ==
    \A i \in 1..Len(slog) :
        (slog[i].op = "load_from_value" /\ sname = "logging") =>
            /\ MalformedInterval =>
                  /\ slog[i].result # OK
                  /\ slog[i].after.cleanup_interval
                        = slog[i].before.cleanup_interval
            /\ ~MalformedInterval => slog[i].result = OK

\* A level that is a number beside an interval of "2w": the error, the
\* interval still the 24 hours it was.
C23_Witness ==
    /\ sname = "logging"
    /\ Len(slog) = 1
    /\ slog[1].op = "load_from_value"
    /\ MalformedInterval
    /\ "level" \in DOMAIN svalue.members
    /\ svalue.members["level"].kind = "u64"
    /\ slog[1].result # OK
    /\ slog[1].after.cleanup_interval = U64(24)

\* ---- init_tracing: sinks and guards

\* C24: when init_tracing returns Ok, the console writer and its worker
\* were made once if console output is on and not at all otherwise, the file
\* appender and its worker likewise for file output, and every worker made
\* had its guard handed to std::mem::forget, so none is shut down.
C24_GuardsLeaked ==
    tracing.status = "ok" =>
        /\ EffectCount("start_console_worker") = (IF tcfg.console THEN 1 ELSE 0)
        /\ EffectCount("build_file_appender") = (IF tcfg.file THEN 1 ELSE 0)
        /\ EffectCount("start_file_worker") = (IF tcfg.file THEN 1 ELSE 0)
        /\ EffectCount("forget_console_guard") = (IF tcfg.console THEN 1 ELSE 0)
        /\ EffectCount("forget_file_guard") = (IF tcfg.file THEN 1 ELSE 0)
        /\ TornDown = {}

\* Both sinks on: two workers, two guards forgotten.
C24_Witness ==
    /\ tracing.status = "ok"
    /\ tcfg.console /\ tcfg.file
    /\ Effect("start_file_worker") /\ Effect("start_console_worker")
    /\ Effect("forget_file_guard") /\ Effect("forget_console_guard")

\* C30: when init_tracing returns an error, it is one of: no sink is on, the
\* directory could not be made, the rotation is unknown, the appender could
\* not be built; and no subscriber was installed and no worker started,
\* console output on or off.
C30_ErrorInstallsNothing ==
    tracing.status = "err" =>
        /\ ~Effect("install_subscriber")
        /\ ~Effect("start_file_worker")
        /\ ~Effect("start_console_worker")
        /\ tracing.layers = <<>>
        /\ \/ ~tcfg.console /\ ~tcfg.file
           \/ tcfg.file /\ ~tfs.mkdir_ok
           \/ tcfg.file /\ tcfg.rotation \notin Rotations
           \/ tcfg.file /\ ~tfs.build_ok

\* Console and file both on, the directory made, the rotation refused.
C30_Witness ==
    /\ tracing.status = "err"
    /\ tcfg.console /\ tcfg.file
    /\ Effect("create_dir_all")
    /\ tracing.err.kind = "Validation"

\* ---- login

LoginReturned == lres.status # "notcalled"

Found == MatchingUsers(users, lreq)

\* The stored hash is one of lreq.password.
PasswordOf(r) ==
    r.password_hash.phc /\ r.password_hash.password = lreq.password

\* C25: when the query succeeds, login returns a token only for a row that
\* matches username_or_email, has status 0 and whose password verifies, and
\* the token is that row's; no matching row gives UserNotFound, matching
\* rows that are all inactive give UserInactive whatever the password,
\* active rows whose hash is another password's give InvalidPassword; and
\* an error comes with no token generated.
C25_TokenOnlyForActiveVerified ==
    (LoginReturned /\ dbUp) =>
        /\ lres.status = "ok" =>
              /\ \E r \in Found :
                    /\ r.status = 0 /\ PasswordOf(r)
                    /\ lres.id = r.id /\ lres.token.sub = r.id
              /\ lres.generated = <<lres.token>>
        /\ Found = {} => lres.err = "UserNotFound"
        /\ (Found # {} /\ \A r \in Found : r.status # 0)
              => lres.err = "UserInactive"
        /\ (Found # {} /\ \A r \in Found :
                r.status = 0 /\ r.password_hash.phc /\ ~PasswordOf(r))
              => lres.err = "InvalidPassword"
        /\ lres.status = "err" => lres.generated = <<>> /\ lres.token = NoToken

\* bob is inactive and the password is not his: UserInactive, no token.
C25_Witness ==
    /\ LoginReturned /\ dbUp
    /\ lreq = LoginRequest("bob@x", "wrong")
    /\ \E r \in Found : r.status = 1 /\ ~PasswordOf(r)
    /\ lres.err = "UserInactive"
    /\ lres.generated = <<>>

\* ---- require_auth

AuthReturned == ares.status # "notcalled"

\* The header is "Bearer " followed by the text of a token that is signed
\* with the service's secret under HS256 and has not expired.
BearerOfValidToken ==
    /\ areq.header.present /\ areq.header.visible
    /\ areq.header.chars = Bearer \o TokenText
    /\ areq.header.token.secret = ServerSecret
    /\ areq.header.token.alg = "HS256"
    /\ areq.header.token.exp + Leeway >= now

\* C26: require_auth runs the handler exactly when the Authorization header
\* is "Bearer " and a token that verifies, once, with a CurrentUser whose
\* user_id is the token's subject; otherwise it returns InvalidInput or
\* InvalidPassword and the handler is not run.
C26_HandlerOnlyBehindValidToken ==
    AuthReturned =>
        /\ BearerOfValidToken =>
              /\ ares.status = "ok"
              /\ ares.current_user = <<areq.header.token.sub>>
              /\ ares.handler = <<areq.header.token.sub>>
        /\ ~BearerOfValidToken =>
              /\ ares.status = "err"
              /\ ares.err \in {"InvalidInput", "InvalidPassword"}
              /\ ares.handler = <<>>

\* A valid token of user 7 on its last second of leeway.
C26_Witness ==
    /\ AuthReturned
    /\ BearerOfValidToken
    /\ areq.header.token.sub = 7
    /\ areq.header.token.exp < now
    /\ ares.handler = <<7>>

\* ---- register

\* The rows the calls stored.
NewUsers == users \ UNION RegisterTables

Registered == {p \in Procs : reg[p].status = "ok"}

\* C27: at every point of every interleaving of two register calls, no two
\* rows have the same username or the same email, two calls that both
\* returned Ok asked for different usernames and different emails, and each
\* call that returned Ok stored one row, its own, and nothing else was
\* stored.
C27_NoDuplicateUsers ==
    /\ \A r1, r2 \in users :
          r1 # r2 => /\ r1.username # r2.username
                     /\ r1.email # r2.email
                     /\ r1.id # r2.id
    /\ \A p, q \in Registered :
          p # q => /\ reg[p].req.username # reg[q].req.username
                   /\ reg[p].req.email # reg[q].req.email
    /\ \A p \in Registered :
          \E r \in NewUsers :
              /\ r.id = reg[p].id
              /\ r.username = reg[p].req.username
              /\ r.email = reg[p].req.email
    /\ Cardinality(NewUsers) = Cardinality(Registered)

\* Two calls for the same username both passed the two queries; one insert
\* was accepted, the other refused.
C27_Witness ==
    /\ reg[1].req.username = reg[2].req.username
    /\ reg[1].req.email # reg[2].req.email
    /\ dbUp
    /\ reg[1].status = "ok"
    /\ reg[2].status = "err" /\ reg[2].msg = "insert failed"
    /\ Cardinality(NewUsers) = 1

\* Both parsers have returned on the same value.
BothParsersReturned ==
    iresult # IntervalNotCalled /\ dresult # IntervalNotCalled

\* C28: on every value, deserialize_cleanup_interval and parse_interval both
\* succeed or both fail, and where they succeed they return the same hour
\* count.
C28_ParsersEquivalent ==
    BothParsersReturned =>
        /\ dresult.ok = iresult.ok
        /\ dresult.ok => dresult.hours = iresult.hours
        /\ (dresult = Panic) = (iresult = Panic)

\* Both returned the hours of a product, and both refused a malformed one.
C28_Witness ==
    /\ BothParsersReturned
    /\ \/ ivalue = TextV(<<"7", "x", "2", "4">>) /\ dresult = Hours(U64(168))
       \/ ivalue = TextV(<<"1", "4", "d">>) /\ dresult = Hours(U64(336))

\* The factors of an "AxB" or "Nd" value, a set of at most one pair: empty
\* for every other value and where a factor is not a u64.
Factors(value) ==
    IF value.kind # "string" THEN {}
    ELSE LET s     == ToLowercase(Trim(value.s))
             x_pos == Find(s, "x")
             left  == ParseU64(Trim(SubSeq(s, 1, x_pos - 1)))
             right == ParseU64(Trim(SubSeq(s, x_pos + 1, Len(s))))
             num   == ParseU64(Trim(SubSeq(s, 1, Len(s) - 1)))
         IN  IF x_pos # 0
             THEN IF left.ok /\ right.ok THEN {<<left.n, right.n>>} ELSE {}
             ELSE IF EndsWith(s, "d") /\ num.ok
                  THEN {<<num.n, U64(HoursPerDay)>>}
                  ELSE {}

\* The result is a value or an error, and a value is the product of the
\* factors f, no bit of it lost.
TrueProduct(result, f) ==
    /\ result # Panic
    /\ result.ok => result.hours \o Zeros(LimbCount) = MulWide(f[1], f[2])

\* C29: for "AxB" and "Nd" values each parser ends with a value or an error,
\* and a value is the product A*B (N*24) itself, never the product modulo
\* 2^64.
C29_HoursAreTheProduct ==
    \A f \in Factors(ivalue) :
        /\ iresult # IntervalNotCalled => TrueProduct(iresult, f)
        /\ dresult # IntervalNotCalled => TrueProduct(dresult, f)

====
